---------------------------- MODULE Spec2Model ----------------------------
(***************************************************************************)
(* The escrow program of smart_contracts/programs/escrow: one escrow       *)
(* record (EscrowAccount), its token sub-account, the clock, and the       *)
(* fourteen instructions of lib.rs.                                        *)
(*                                                                         *)
(* Every instruction is an operator that computes what the handler does    *)
(* to its in-memory copy of the record, in the order of the source: the    *)
(* account validation of its Accounts struct, the checks, the writes, the  *)
(* emitted events and the requested token-program call.  The runtime       *)
(* (Commit) keeps the result of an instruction that returns Ok and throws  *)
(* away everything an instruction that returns an error did.               *)
(*                                                                         *)
(* Three specifications.  Spec is the program: the instructions called in  *)
(* any order by any signer while the clock advances.  SpecState is         *)
(* state.rs alone: the methods of EscrowAccount called, as its unit tests  *)
(* call them, on hand-built records with a timestamp the caller supplies.  *)
(* SpecRecover is the owner taking the held balance back: the owner        *)
(* creates the record, deposits, delegates and pauses, then sets out and   *)
(* from then on calls unpause_escrow, the revocations and withdraw_token   *)
(* only, while any signer calls the delegates' withdrawals and the clock   *)
(* runs on; it states the fairness of the clock and of the owner's calls.  *)
(*                                                                         *)
(* Scale.  TLC's integers are 32 bits wide, so u64 is modelled as the      *)
(* range 0..U64_MAX and the token limits of constants.rs are scaled to     *)
(* small amounts that keep their order (DUST_THRESHOLD <                   *)
(* MAX_SUBSCRIPTION_FEE < MAX_TRANSACTION_AMOUNT < DEFAULT_MAX_BALANCE <   *)
(* MAX_ALLOWED_BALANCE < U64_MAX).  The durations, the decimals and the    *)
(* rent floor keep the values of the source.                               *)
(***************************************************************************)
EXTENDS Integers, Sequences, FiniteSets, TLC

\* ------------------------------------------------------------------------
\* constants.rs
\* ------------------------------------------------------------------------
DEFAULT_MAX_BALANCE == 4
MAX_ALLOWED_BALANCE == 5
MAX_TRANSACTION_AMOUNT == 3
DUST_THRESHOLD == 1
MIN_AUTHORITY_AGE == 300
UNPAUSE_COOLDOWN == 300
MIN_TOKEN_DECIMALS == 6
MAX_TOKEN_DECIMALS == 9
MIN_RENT_EXEMPT_LAMPORTS == 2039280
MAX_SUBSCRIPTION_FEE == 2

\* ------------------------------------------------------------------------
\* Bounds of the model
\* ------------------------------------------------------------------------
\* The largest value of a u64 (action_nonce, the accumulators, the amounts).
U64_MAX == 6
\* The clock starts at StartTime and stops advancing after MaxElapsed seconds.
StartTime == 1000
MaxElapsed == 300

\* ------------------------------------------------------------------------
\* Identities and inputs
\* ------------------------------------------------------------------------
\* Pubkey::default(): the value of an authority field that is not set.
DefaultPubkey == "default"
\* The signers: the owner of the record and two other identities.
Owner == "U"
Signers == {"U", "A", "B"}
\* The signers that create a record.
InitSigners == {Owner}
\* The identities an owner names as the platform and as the trading delegate.
PlatformTargets == {DefaultPubkey, "A", "B"}
TradingTargets == {DefaultPubkey, "B"}
\* The mint of the record and another mint.
Mint == "USDC"
Mints == {"USDC", "XYZ"}
Bump == 255

U64 == 0..U64_MAX
\* The amounts the instructions are called with.
DepositAmounts == {0, DEFAULT_MAX_BALANCE, MAX_ALLOWED_BALANCE,
                   MAX_ALLOWED_BALANCE + 1}
FeeAmounts == {0, MAX_SUBSCRIPTION_FEE, MAX_SUBSCRIPTION_FEE + 1}
TradeAmounts == {0, DEFAULT_MAX_BALANCE \div 2, MAX_TRANSACTION_AMOUNT,
                 MAX_TRANSACTION_AMOUNT + 1}
WithdrawAmounts == {0, 1, DEFAULT_MAX_BALANCE \div 2, MAX_TRANSACTION_AMOUNT}
MaxBalanceInputs == {0, MAX_ALLOWED_BALANCE, MAX_ALLOWED_BALANCE + 1}
DecimalsInputs == {MIN_TOKEN_DECIMALS - 1, MIN_TOKEN_DECIMALS,
                   MAX_TOKEN_DECIMALS, MAX_TOKEN_DECIMALS + 1}
LifetimeInputs == {-1, 0, MIN_AUTHORITY_AGE - 1}
LamportsInputs == {MIN_RENT_EXEMPT_LAMPORTS - 1, MIN_RENT_EXEMPT_LAMPORTS}
\* The clock advances by one of these.
ClockSteps == {MIN_AUTHORITY_AGE - 1, MIN_AUTHORITY_AGE}

VARIABLES
    live,     \* the escrow account (and its token sub-account) exists
    escrow,   \* the fields of the EscrowAccount
    vault,    \* escrow_token_account.amount
    now,      \* Clock::get()?.unix_timestamp
    hist,     \* history: what the committed instructions did, and when
    answer,   \* what the last call of a predicate of state.rs returned
    recovering \* the owner has set out to take the held balance back

vars == <<live, escrow, vault, now, hist, answer, recovering>>

\* ------------------------------------------------------------------------
\* state.rs: the flag bits
\* ------------------------------------------------------------------------
FLAG_PLATFORM_ACTIVE == 1
FLAG_TRADING_ACTIVE == 2
FLAG_PAUSED == 4

\* flags & bit != 0, for a one-bit mask.
HasBit(flags, bit) == (flags \div bit) % 2 = 1
\* flags |= bit
OrBit(flags, bit) == IF HasBit(flags, bit) THEN flags ELSE flags + bit
\* flags &= !bit
AndNotBit(flags, bit) == IF HasBit(flags, bit) THEN flags - bit ELSE flags

is_platform_active(e) == HasBit(e.flags, FLAG_PLATFORM_ACTIVE)

set_platform_active(e, active) ==
    IF active
    THEN [e EXCEPT !.flags = OrBit(@, FLAG_PLATFORM_ACTIVE)]
    ELSE [e EXCEPT !.flags = AndNotBit(@, FLAG_PLATFORM_ACTIVE)]

is_trading_active(e) == HasBit(e.flags, FLAG_TRADING_ACTIVE)

\* set_trading_active assigning the flags instead of setting the bit.
set_trading_active_assign(e, active) ==
    IF active
    THEN [e EXCEPT !.flags = FLAG_TRADING_ACTIVE]
    ELSE [e EXCEPT !.flags = 0]

set_trading_active(e, active) ==
    IF active
    THEN [e EXCEPT !.flags = OrBit(@, FLAG_TRADING_ACTIVE)]
    ELSE [e EXCEPT !.flags = AndNotBit(@, FLAG_TRADING_ACTIVE)]

is_paused(e) == HasBit(e.flags, FLAG_PAUSED)

set_paused(e, paused, timestamp) ==
    IF paused
    THEN [e EXCEPT !.flags = OrBit(@, FLAG_PAUSED),
                   !.last_paused_at = timestamp]
    ELSE [e EXCEPT !.flags = AndNotBit(@, FLAG_PAUSED)]

has_active_authority(e) == is_platform_active(e) \/ is_trading_active(e)

\* is_expired with the boundary included.
is_expired_inclusive(e, current_timestamp) ==
    IF e.max_lifetime = 0
    THEN FALSE
    ELSE current_timestamp - e.created_at >= e.max_lifetime

is_expired(e, current_timestamp) ==
    IF e.max_lifetime = 0
    THEN FALSE
    ELSE current_timestamp - e.created_at > e.max_lifetime

\* can_unpause without the cooldown comparison.
can_unpause_no_cooldown(e, current_timestamp) ==
    IF e.last_paused_at = 0
    THEN TRUE
    ELSE TRUE

\* can_unpause with the boundary excluded.
can_unpause_strict(e, current_timestamp) ==
    IF e.last_paused_at = 0
    THEN TRUE
    ELSE current_timestamp - e.last_paused_at > UNPAUSE_COOLDOWN

can_unpause(e, current_timestamp) ==
    IF e.last_paused_at = 0
    THEN TRUE
    ELSE current_timestamp - e.last_paused_at >= UNPAUSE_COOLDOWN

\* is_platform_authority_mature without the age comparison.
is_platform_authority_mature_no_age(e, current_timestamp) ==
    IF e.platform_activated_at = 0 THEN FALSE
    ELSE TRUE

is_platform_authority_mature(e, current_timestamp) ==
    IF e.platform_activated_at = 0
    THEN FALSE
    ELSE current_timestamp - e.platform_activated_at >= MIN_AUTHORITY_AGE

\* is_trading_authority_mature with the boundary excluded.
is_trading_authority_mature_strict(e, current_timestamp) ==
    IF e.trading_activated_at = 0
    THEN FALSE
    ELSE current_timestamp - e.trading_activated_at > MIN_AUTHORITY_AGE

is_trading_authority_mature(e, current_timestamp) ==
    IF e.trading_activated_at = 0
    THEN FALSE
    ELSE current_timestamp - e.trading_activated_at >= MIN_AUTHORITY_AGE

\* a.checked_add(b) replaced by a.wrapping_add(b).
checked_add_wrapping(a, b) == (a + b) % (U64_MAX + 1)

\* ------------------------------------------------------------------------
\* u64 arithmetic
\* ------------------------------------------------------------------------
\* a.checked_add(b): None (here -1) when the sum does not fit.
checked_add(a, b) == IF a + b > U64_MAX THEN -1 ELSE a + b
\* a.wrapping_add(b) of a type one value narrower.
wrapping_add_narrow(a, b) == (a + b) % U64_MAX

\* a.wrapping_add(b)
wrapping_add(a, b) == (a + b) % (U64_MAX + 1)
\* a.saturating_sub(b)
saturating_sub(a, b) == IF a < b THEN 0 ELSE a - b

\* ------------------------------------------------------------------------
\* The record before initialize_escrow and after close_escrow
\* ------------------------------------------------------------------------
NoEscrow ==
    [user |-> DefaultPubkey, platform_authority |-> DefaultPubkey,
     trading_authority |-> DefaultPubkey, token_mint |-> DefaultPubkey,
     bump |-> 0, flags |-> 0, created_at |-> 0,
     platform_activated_at |-> 0, trading_activated_at |-> 0,
     last_paused_at |-> 0, action_nonce |-> 0, total_deposited |-> 0,
     total_withdrawn |-> 0, total_fees_paid |-> 0, total_traded |-> 0,
     max_balance |-> 0, max_lifetime |-> 0]

\* ------------------------------------------------------------------------
\* What an instruction returns
\* ------------------------------------------------------------------------
\* err: "Ok" or the error; escrow: the handler's in-memory record when it
\* returned; trace: the writes, events and token-program calls it made, in
\* order; moved: the tokens the token program moved into (+) or out of (-)
\* the sub-account; closed: the accounts were closed.
Fail(code, e, trace) ==
    [err |-> code, escrow |-> e, moved |-> 0, trace |-> trace,
     closed |-> FALSE]

Done(e, moved, trace, closed) ==
    [err |-> "Ok", escrow |-> e, moved |-> moved, trace |-> trace,
     closed |-> closed]

\* The steps of a trace.
WriteSteps == {"write user", "write platform_authority",
               "write trading_authority", "write token_mint", "write bump",
               "write flags", "write created_at",
               "write platform_activated_at", "write trading_activated_at",
               "write last_paused_at", "write action_nonce",
               "write total_deposited", "write total_withdrawn",
               "write total_fees_paid", "write total_traded",
               "write max_balance", "write max_lifetime"}
CpiSteps == {"cpi transfer", "cpi close_account"}
EmitSteps == {"emit EscrowInitialized", "emit TokenDeposit",
              "emit PlatformAuthorityDelegated",
              "emit TradingAuthorityDelegated",
              "emit PlatformAuthorityRevoked",
              "emit TradingAuthorityRevoked", "emit TokenWithdraw",
              "emit SubscriptionFeeWithdraw", "emit TradeWithdraw",
              "emit EmergencyWithdrawal", "emit EscrowPaused",
              "emit EscrowUnpaused", "emit EscrowClosed"}

\* ------------------------------------------------------------------------
\* lib.rs: the account validation of each Accounts struct
\* ------------------------------------------------------------------------
\* init: the escrow account must not exist yet.
InitializeEscrow(lv) ==
    IF lv THEN "AccountAlreadyInUse" ELSE "Ok"

\* has_one = user, has_one = token_mint
DepositToken(lv, e, user, token_mint) ==
    IF ~lv THEN "AccountNotInitialized"
    ELSE IF e.user # user THEN "Unauthorized"
    ELSE IF e.token_mint # token_mint THEN "InvalidTokenMint"
    ELSE "Ok"

\* has_one = user
\* DelegatePlatformAuthority without has_one = user.
DelegatePlatformAuthority_no_has_one(lv, e, user) ==
    IF ~lv THEN "AccountNotInitialized"
    ELSE "Ok"

DelegatePlatformAuthority(lv, e, user) ==
    IF ~lv THEN "AccountNotInitialized"
    ELSE IF e.user # user THEN "Unauthorized"
    ELSE "Ok"

DelegateTradingAuthority(lv, e, user) ==
    IF ~lv THEN "AccountNotInitialized"
    ELSE IF e.user # user THEN "Unauthorized"
    ELSE "Ok"

RevokePlatformAuthority(lv, e, user) ==
    IF ~lv THEN "AccountNotInitialized"
    ELSE IF e.user # user THEN "Unauthorized"
    ELSE "Ok"

RevokeTradingAuthority(lv, e, user) ==
    IF ~lv THEN "AccountNotInitialized"
    ELSE IF e.user # user THEN "Unauthorized"
    ELSE "Ok"

\* has_one = token_mint; platform_authority is any signer.
WithdrawSubscriptionFee(lv, e, token_mint) ==
    IF ~lv THEN "AccountNotInitialized"
    ELSE IF e.token_mint # token_mint THEN "InvalidTokenMint"
    ELSE "Ok"

\* has_one = token_mint; trading_authority is any signer.
WithdrawForTrade(lv, e, token_mint) ==
    IF ~lv THEN "AccountNotInitialized"
    ELSE IF e.token_mint # token_mint THEN "InvalidTokenMint"
    ELSE "Ok"

WithdrawToken(lv, e, user, token_mint) ==
    IF ~lv THEN "AccountNotInitialized"
    ELSE IF e.user # user THEN "Unauthorized"
    ELSE IF e.token_mint # token_mint THEN "InvalidTokenMint"
    ELSE "Ok"

EmergencyWithdraw(lv, e, user, token_mint) ==
    IF ~lv THEN "AccountNotInitialized"
    ELSE IF e.user # user THEN "Unauthorized"
    ELSE IF e.token_mint # token_mint THEN "InvalidTokenMint"
    ELSE "Ok"

PauseEscrow(lv, e, user) ==
    IF ~lv THEN "AccountNotInitialized"
    ELSE IF e.user # user THEN "Unauthorized"
    ELSE "Ok"

UnpauseEscrow(lv, e, user) ==
    IF ~lv THEN "AccountNotInitialized"
    ELSE IF e.user # user THEN "Unauthorized"
    ELSE "Ok"

SetMaxLifetime(lv, e, user) ==
    IF ~lv THEN "AccountNotInitialized"
    ELSE IF e.user # user THEN "Unauthorized"
    ELSE "Ok"

\* has_one = user, close = user
CloseEscrow(lv, e, user) ==
    IF ~lv THEN "AccountNotInitialized"
    ELSE IF e.user # user THEN "Unauthorized"
    ELSE "Ok"

\* ------------------------------------------------------------------------
\* lib.rs: the handlers
\* ------------------------------------------------------------------------
\* initialize_escrow without the check of the mint's decimals.
initialize_escrow_any_decimals(user, token_mint, decimals, bump, max_balance, t) ==
    IF max_balance > 0 /\ ~(max_balance <= MAX_ALLOWED_BALANCE)
    THEN Fail("MaxBalanceExceeded", NoEscrow, <<>>)
    ELSE Done([user |-> user,
               platform_authority |-> DefaultPubkey,
               trading_authority |-> DefaultPubkey,
               token_mint |-> token_mint,
               bump |-> bump,
               flags |-> 0,
               created_at |-> t,
               platform_activated_at |-> 0,
               trading_activated_at |-> 0,
               last_paused_at |-> 0,
               action_nonce |-> 0,
               total_deposited |-> 0,
               total_withdrawn |-> 0,
               total_fees_paid |-> 0,
               total_traded |-> 0,
               max_balance |-> IF max_balance = 0
                               THEN DEFAULT_MAX_BALANCE
                               ELSE max_balance,
               max_lifetime |-> 0],
              0,
              <<"write user", "write platform_authority",
                "write trading_authority", "write token_mint", "write bump",
                "write flags", "write created_at",
                "write platform_activated_at", "write trading_activated_at",
                "write last_paused_at", "write action_nonce",
                "write total_deposited", "write total_withdrawn",
                "write total_fees_paid", "write total_traded",
                "write max_balance", "write max_lifetime",
                "emit EscrowInitialized">>,
              FALSE)

initialize_escrow(user, token_mint, decimals, bump, max_balance, t) ==
    IF max_balance > 0 /\ ~(max_balance <= MAX_ALLOWED_BALANCE)
    THEN Fail("MaxBalanceExceeded", NoEscrow, <<>>)
    ELSE IF ~(decimals >= MIN_TOKEN_DECIMALS /\ decimals <= MAX_TOKEN_DECIMALS)
    THEN Fail("InvalidTokenDecimals", NoEscrow, <<>>)
    ELSE Done([user |-> user,
               platform_authority |-> DefaultPubkey,
               trading_authority |-> DefaultPubkey,
               token_mint |-> token_mint,
               bump |-> bump,
               flags |-> 0,
               created_at |-> t,
               platform_activated_at |-> 0,
               trading_activated_at |-> 0,
               last_paused_at |-> 0,
               action_nonce |-> 0,
               total_deposited |-> 0,
               total_withdrawn |-> 0,
               total_fees_paid |-> 0,
               total_traded |-> 0,
               max_balance |-> IF max_balance = 0
                               THEN DEFAULT_MAX_BALANCE
                               ELSE max_balance,
               max_lifetime |-> 0],
              0,
              <<"write user", "write platform_authority",
                "write trading_authority", "write token_mint", "write bump",
                "write flags", "write created_at",
                "write platform_activated_at", "write trading_activated_at",
                "write last_paused_at", "write action_nonce",
                "write total_deposited", "write total_withdrawn",
                "write total_fees_paid", "write total_traded",
                "write max_balance", "write max_lifetime",
                "emit EscrowInitialized">>,
              FALSE)

\* deposit_token with its writes moved before the max_balance check.
deposit_token_early_write(e, bal, t, amount, cpi_ok) ==
    IF is_paused(e) THEN Fail("EscrowPaused", e, <<>>)
    ELSE IF ~(amount > 0) THEN Fail("InvalidAmount", e, <<>>)
    ELSE IF is_expired(e, t) THEN Fail("EscrowExpired", e, <<>>)
    ELSE IF checked_add(bal, amount) = -1
    THEN Fail("MathOverflow", e, <<>>)
    ELSE IF checked_add(e.total_deposited, amount) = -1
    THEN Fail("MathOverflow", e, <<>>)
    ELSE LET e1 == [e EXCEPT
                      !.total_deposited = checked_add(@, amount),
                      !.action_nonce = wrapping_add(@, 1)]
             writes == <<"write total_deposited", "write action_nonce">>
         IN  IF e.max_balance > 0
                /\ ~(checked_add(bal, amount) <= e.max_balance)
             THEN Fail("MaxBalanceExceeded", e1, writes)
             ELSE IF ~cpi_ok
             THEN Fail("TokenProgramError", e1,
                       writes \o <<"cpi transfer">>)
             ELSE Done(e1, amount,
                       writes \o <<"cpi transfer", "emit TokenDeposit">>,
                       FALSE)

\* deposit_token without the max_balance check.
deposit_token_no_ceiling(e, bal, t, amount, cpi_ok) ==
    IF is_paused(e) THEN Fail("EscrowPaused", e, <<>>)
    ELSE IF ~(amount > 0) THEN Fail("InvalidAmount", e, <<>>)
    ELSE IF is_expired(e, t) THEN Fail("EscrowExpired", e, <<>>)
    ELSE IF checked_add(bal, amount) = -1
    THEN Fail("MathOverflow", e, <<>>)
    ELSE IF checked_add(e.total_deposited, amount) = -1
    THEN Fail("MathOverflow", e, <<>>)
    ELSE LET e1 == [e EXCEPT
                      !.total_deposited = checked_add(@, amount),
                      !.action_nonce = wrapping_add(@, 1)]
             writes == <<"write total_deposited", "write action_nonce">>
         IN  IF ~cpi_ok
             THEN Fail("TokenProgramError", e1,
                       writes \o <<"cpi transfer">>)
             ELSE Done(e1, amount,
                       writes \o <<"cpi transfer", "emit TokenDeposit">>,
                       FALSE)

deposit_token(e, bal, t, amount, cpi_ok) ==
    IF is_paused(e) THEN Fail("EscrowPaused", e, <<>>)
    ELSE IF ~(amount > 0) THEN Fail("InvalidAmount", e, <<>>)
    ELSE IF is_expired(e, t) THEN Fail("EscrowExpired", e, <<>>)
    ELSE IF checked_add(bal, amount) = -1
    THEN Fail("MathOverflow", e, <<>>)
    ELSE IF e.max_balance > 0 /\ ~(checked_add(bal, amount) <= e.max_balance)
    THEN Fail("MaxBalanceExceeded", e, <<>>)
    ELSE IF checked_add(e.total_deposited, amount) = -1
    THEN Fail("MathOverflow", e, <<>>)
    ELSE LET e1 == [e EXCEPT
                      !.total_deposited = checked_add(@, amount),
                      !.action_nonce = wrapping_add(@, 1)]
             writes == <<"write total_deposited", "write action_nonce">>
         IN  IF ~cpi_ok
             THEN Fail("TokenProgramError", e1,
                       writes \o <<"cpi transfer">>)
             ELSE Done(e1, amount,
                       writes \o <<"cpi transfer", "emit TokenDeposit">>,
                       FALSE)

\* delegate_platform_authority without the check that the slot is empty.
delegate_platform_authority_overwrite(e, t, platform_authority) ==
    IF is_paused(e) THEN Fail("EscrowPaused", e, <<>>)
    ELSE IF ~(platform_authority # DefaultPubkey)
    THEN Fail("InvalidAuthority", e, <<>>)
    ELSE IF is_expired(e, t) THEN Fail("EscrowExpired", e, <<>>)
    ELSE Done([set_platform_active(
                   [e EXCEPT !.platform_authority = platform_authority],
                   TRUE)
               EXCEPT !.platform_activated_at = t,
                      !.action_nonce = wrapping_add(@, 1)],
              0,
              <<"write platform_authority", "write flags",
                "write platform_activated_at", "write action_nonce",
                "emit PlatformAuthorityDelegated">>,
              FALSE)

delegate_platform_authority(e, t, platform_authority) ==
    IF is_paused(e) THEN Fail("EscrowPaused", e, <<>>)
    ELSE IF ~(platform_authority # DefaultPubkey)
    THEN Fail("InvalidAuthority", e, <<>>)
    ELSE IF ~(e.platform_authority = DefaultPubkey)
    THEN Fail("PlatformAuthorityAlreadySet", e, <<>>)
    ELSE IF is_expired(e, t) THEN Fail("EscrowExpired", e, <<>>)
    ELSE Done([set_platform_active(
                   [e EXCEPT !.platform_authority = platform_authority],
                   TRUE)
               EXCEPT !.platform_activated_at = t,
                      !.action_nonce = wrapping_add(@, 1)],
              0,
              <<"write platform_authority", "write flags",
                "write platform_activated_at", "write action_nonce",
                "emit PlatformAuthorityDelegated">>,
              FALSE)

\* delegate_trading_authority without the expiry check.
delegate_trading_authority_no_expiry(e, t, trading_authority) ==
    IF is_paused(e) THEN Fail("EscrowPaused", e, <<>>)
    ELSE IF ~(trading_authority # DefaultPubkey)
    THEN Fail("InvalidAuthority", e, <<>>)
    ELSE IF ~(e.trading_authority = DefaultPubkey)
    THEN Fail("TradingAuthorityAlreadySet", e, <<>>)
    ELSE Done([set_trading_active(
                   [e EXCEPT !.trading_authority = trading_authority],
                   TRUE)
               EXCEPT !.trading_activated_at = t,
                      !.action_nonce = wrapping_add(@, 1)],
              0,
              <<"write trading_authority", "write flags",
                "write trading_activated_at", "write action_nonce",
                "emit TradingAuthorityDelegated">>,
              FALSE)

delegate_trading_authority(e, t, trading_authority) ==
    IF is_paused(e) THEN Fail("EscrowPaused", e, <<>>)
    ELSE IF ~(trading_authority # DefaultPubkey)
    THEN Fail("InvalidAuthority", e, <<>>)
    ELSE IF ~(e.trading_authority = DefaultPubkey)
    THEN Fail("TradingAuthorityAlreadySet", e, <<>>)
    ELSE IF is_expired(e, t) THEN Fail("EscrowExpired", e, <<>>)
    ELSE Done([set_trading_active(
                   [e EXCEPT !.trading_authority = trading_authority],
                   TRUE)
               EXCEPT !.trading_activated_at = t,
                      !.action_nonce = wrapping_add(@, 1)],
              0,
              <<"write trading_authority", "write flags",
                "write trading_activated_at", "write action_nonce",
                "emit TradingAuthorityDelegated">>,
              FALSE)

\* revoke_platform_authority refusing a slot that is not set.
revoke_platform_authority_needs_set(e) ==
    IF is_paused(e) THEN Fail("EscrowPaused", e, <<>>)
    ELSE IF e.platform_authority = DefaultPubkey
    THEN Fail("InvalidAuthority", e, <<>>)
    ELSE Done([set_platform_active(
                   [e EXCEPT !.platform_authority = DefaultPubkey],
                   FALSE)
               EXCEPT !.platform_activated_at = 0,
                      !.action_nonce = wrapping_add(@, 1)],
              0,
              <<"write platform_authority", "write flags",
                "write platform_activated_at", "write action_nonce",
                "emit PlatformAuthorityRevoked">>,
              FALSE)

revoke_platform_authority(e) ==
    IF is_paused(e) THEN Fail("EscrowPaused", e, <<>>)
    ELSE Done([set_platform_active(
                   [e EXCEPT !.platform_authority = DefaultPubkey],
                   FALSE)
               EXCEPT !.platform_activated_at = 0,
                      !.action_nonce = wrapping_add(@, 1)],
              0,
              <<"write platform_authority", "write flags",
                "write platform_activated_at", "write action_nonce",
                "emit PlatformAuthorityRevoked">>,
              FALSE)

\* revoke_trading_authority leaving the trading flag set.
revoke_trading_authority_keeps_flag(e) ==
    IF is_paused(e) THEN Fail("EscrowPaused", e, <<>>)
    ELSE Done([e EXCEPT !.trading_authority = DefaultPubkey,
                        !.trading_activated_at = 0,
                        !.action_nonce = wrapping_add(@, 1)],
              0,
              <<"write trading_authority", "write flags",
                "write trading_activated_at", "write action_nonce",
                "emit TradingAuthorityRevoked">>,
              FALSE)

\* revoke_trading_authority without the is_paused check.
revoke_trading_authority_any_time(e) ==
    Done([set_trading_active(
              [e EXCEPT !.trading_authority = DefaultPubkey],
              FALSE)
          EXCEPT !.trading_activated_at = 0,
                 !.action_nonce = wrapping_add(@, 1)],
         0,
         <<"write trading_authority", "write flags",
           "write trading_activated_at", "write action_nonce",
           "emit TradingAuthorityRevoked">>,
         FALSE)

revoke_trading_authority(e) ==
    IF is_paused(e) THEN Fail("EscrowPaused", e, <<>>)
    ELSE Done([set_trading_active(
                   [e EXCEPT !.trading_authority = DefaultPubkey],
                   FALSE)
               EXCEPT !.trading_activated_at = 0,
                      !.action_nonce = wrapping_add(@, 1)],
              0,
              <<"write trading_authority", "write flags",
                "write trading_activated_at", "write action_nonce",
                "emit TradingAuthorityRevoked">>,
              FALSE)

\* withdraw_subscription_fee adding the amount to total_withdrawn.
withdraw_subscription_fee_as_withdrawn(e, bal, t, platform_authority, amount, cpi_ok) ==
    IF is_paused(e) THEN Fail("EscrowPaused", e, <<>>)
    ELSE IF ~(amount > 0) THEN Fail("InvalidAmount", e, <<>>)
    ELSE IF ~(amount <= MAX_SUBSCRIPTION_FEE)
    THEN Fail("AmountTooLarge", e, <<>>)
    ELSE IF ~(platform_authority = e.platform_authority)
    THEN Fail("UnauthorizedPlatform", e, <<>>)
    ELSE IF ~is_platform_authority_mature(e, t)
    THEN Fail("PlatformAuthorityTooNew", e, <<>>)
    ELSE IF ~(amount <= bal) THEN Fail("InsufficientBalance", e, <<>>)
    ELSE IF checked_add(e.total_withdrawn, amount) = -1
    THEN Fail("MathOverflow", e, <<>>)
    ELSE LET e1 == [e EXCEPT
                      !.total_withdrawn = checked_add(@, amount),
                      !.action_nonce = wrapping_add(@, 1)]
             steps == <<"write total_withdrawn", "write action_nonce",
                        "emit SubscriptionFeeWithdraw", "cpi transfer">>
         IN  IF ~cpi_ok
             THEN Fail("TokenProgramError", e1, steps)
             ELSE Done(e1, 0 - amount, steps, FALSE)

withdraw_subscription_fee(e, bal, t, platform_authority, amount, cpi_ok) ==
    IF is_paused(e) THEN Fail("EscrowPaused", e, <<>>)
    ELSE IF ~(amount > 0) THEN Fail("InvalidAmount", e, <<>>)
    ELSE IF ~(amount <= MAX_SUBSCRIPTION_FEE)
    THEN Fail("AmountTooLarge", e, <<>>)
    ELSE IF ~(platform_authority = e.platform_authority)
    THEN Fail("UnauthorizedPlatform", e, <<>>)
    ELSE IF ~is_platform_authority_mature(e, t)
    THEN Fail("PlatformAuthorityTooNew", e, <<>>)
    ELSE IF ~(amount <= bal) THEN Fail("InsufficientBalance", e, <<>>)
    ELSE IF checked_add(e.total_fees_paid, amount) = -1
    THEN Fail("MathOverflow", e, <<>>)
    ELSE LET e1 == [e EXCEPT
                      !.total_fees_paid = checked_add(@, amount),
                      !.action_nonce = wrapping_add(@, 1)]
             steps == <<"write total_fees_paid", "write action_nonce",
                        "emit SubscriptionFeeWithdraw", "cpi transfer">>
         IN  IF ~cpi_ok
             THEN Fail("TokenProgramError", e1, steps)
             ELSE Done(e1, 0 - amount, steps, FALSE)

\* withdraw_for_trade without the MAX_TRANSACTION_AMOUNT check.
withdraw_for_trade_uncapped(e, bal, t, trading_authority, amount, cpi_ok) ==
    IF is_paused(e) THEN Fail("EscrowPaused", e, <<>>)
    ELSE IF ~(amount > 0) THEN Fail("InvalidAmount", e, <<>>)
    ELSE IF ~(trading_authority = e.trading_authority)
    THEN Fail("UnauthorizedTrading", e, <<>>)
    ELSE IF ~is_trading_authority_mature(e, t)
    THEN Fail("TradingAuthorityTooNew", e, <<>>)
    ELSE IF ~(amount <= bal) THEN Fail("InsufficientBalance", e, <<>>)
    ELSE IF checked_add(e.total_traded, amount) = -1
    THEN Fail("MathOverflow", e, <<>>)
    ELSE LET e1 == [e EXCEPT
                      !.total_traded = checked_add(@, amount),
                      !.action_nonce = wrapping_add(@, 1)]
             steps == <<"write total_traded", "write action_nonce",
                        "emit TradeWithdraw", "cpi transfer">>
         IN  IF ~cpi_ok
             THEN Fail("TokenProgramError", e1, steps)
             ELSE Done(e1, 0 - amount, steps, FALSE)

withdraw_for_trade(e, bal, t, trading_authority, amount, cpi_ok) ==
    IF is_paused(e) THEN Fail("EscrowPaused", e, <<>>)
    ELSE IF ~(amount > 0) THEN Fail("InvalidAmount", e, <<>>)
    ELSE IF ~(amount <= MAX_TRANSACTION_AMOUNT)
    THEN Fail("AmountTooLarge", e, <<>>)
    ELSE IF ~(trading_authority = e.trading_authority)
    THEN Fail("UnauthorizedTrading", e, <<>>)
    ELSE IF ~is_trading_authority_mature(e, t)
    THEN Fail("TradingAuthorityTooNew", e, <<>>)
    ELSE IF ~(amount <= bal) THEN Fail("InsufficientBalance", e, <<>>)
    ELSE IF checked_add(e.total_traded, amount) = -1
    THEN Fail("MathOverflow", e, <<>>)
    ELSE LET e1 == [e EXCEPT
                      !.total_traded = checked_add(@, amount),
                      !.action_nonce = wrapping_add(@, 1)]
             steps == <<"write total_traded", "write action_nonce",
                        "emit TradeWithdraw", "cpi transfer">>
         IN  IF ~cpi_ok
             THEN Fail("TokenProgramError", e1, steps)
             ELSE Done(e1, 0 - amount, steps, FALSE)

\* withdraw_token without its authority check.
withdraw_token_ungated(e, bal, amount, cpi_ok) ==
    IF is_paused(e) THEN Fail("EscrowPaused", e, <<>>)
    ELSE IF ~(amount > 0) THEN Fail("InvalidAmount", e, <<>>)
    ELSE IF ~(amount <= bal) THEN Fail("InsufficientBalance", e, <<>>)
    ELSE IF checked_add(e.total_withdrawn, amount) = -1
    THEN Fail("MathOverflow", e, <<>>)
    ELSE LET e1 == [e EXCEPT
                      !.total_withdrawn = checked_add(@, amount),
                      !.action_nonce = wrapping_add(@, 1)]
             steps == <<"write total_withdrawn", "write action_nonce",
                        "emit TokenWithdraw", "cpi transfer">>
         IN  IF ~cpi_ok
             THEN Fail("TokenProgramError", e1, steps)
             ELSE Done(e1, 0 - amount, steps, FALSE)

\* withdraw_token without the comparison of the amount with the balance.
withdraw_token_overdraw(e, bal, amount, cpi_ok) ==
    IF is_paused(e) THEN Fail("EscrowPaused", e, <<>>)
    ELSE IF has_active_authority(e) THEN Fail("EscrowStillActive", e, <<>>)
    ELSE IF ~(amount > 0) THEN Fail("InvalidAmount", e, <<>>)
    ELSE IF checked_add(e.total_withdrawn, amount) = -1
    THEN Fail("MathOverflow", e, <<>>)
    ELSE LET e1 == [e EXCEPT
                      !.total_withdrawn = checked_add(@, amount),
                      !.action_nonce = wrapping_add(@, 1)]
             steps == <<"write total_withdrawn", "write action_nonce",
                        "emit TokenWithdraw", "cpi transfer">>
         IN  IF ~cpi_ok
             THEN Fail("TokenProgramError", e1, steps)
             ELSE Done(e1, 0 - amount, steps, FALSE)

withdraw_token(e, bal, amount, cpi_ok) ==
    IF is_paused(e) THEN Fail("EscrowPaused", e, <<>>)
    ELSE IF has_active_authority(e) THEN Fail("EscrowStillActive", e, <<>>)
    ELSE IF ~(amount > 0) THEN Fail("InvalidAmount", e, <<>>)
    ELSE IF ~(amount <= bal) THEN Fail("InsufficientBalance", e, <<>>)
    ELSE IF checked_add(e.total_withdrawn, amount) = -1
    THEN Fail("MathOverflow", e, <<>>)
    ELSE LET e1 == [e EXCEPT
                      !.total_withdrawn = checked_add(@, amount),
                      !.action_nonce = wrapping_add(@, 1)]
             steps == <<"write total_withdrawn", "write action_nonce",
                        "emit TokenWithdraw", "cpi transfer">>
         IN  IF ~cpi_ok
             THEN Fail("TokenProgramError", e1, steps)
             ELSE Done(e1, 0 - amount, steps, FALSE)

\* emergency_withdraw without the is_paused check.
emergency_withdraw_any_time(e, bal, amount, cpi_ok) ==
    IF has_active_authority(e) THEN Fail("EscrowStillActive", e, <<>>)
    ELSE IF ~(amount > 0) THEN Fail("InvalidAmount", e, <<>>)
    ELSE IF ~(amount <= bal) THEN Fail("InsufficientBalance", e, <<>>)
    ELSE IF checked_add(e.total_withdrawn, amount) = -1
    THEN Fail("MathOverflow", e, <<>>)
    ELSE LET e1 == [e EXCEPT
                      !.total_withdrawn = checked_add(@, amount),
                      !.action_nonce = wrapping_add(@, 1)]
             steps == <<"write total_withdrawn", "write action_nonce",
                        "cpi transfer">>
         IN  IF ~cpi_ok
             THEN Fail("TokenProgramError", e1, steps)
             ELSE Done(e1, 0 - amount, steps, FALSE)

\* emergency_withdraw calling the token program before its writes.
emergency_withdraw_cpi_first(e, bal, amount, cpi_ok) ==
    IF ~is_paused(e) THEN Fail("EscrowNotPaused", e, <<>>)
    ELSE IF has_active_authority(e) THEN Fail("EscrowStillActive", e, <<>>)
    ELSE IF ~(amount > 0) THEN Fail("InvalidAmount", e, <<>>)
    ELSE IF ~(amount <= bal) THEN Fail("InsufficientBalance", e, <<>>)
    ELSE IF ~cpi_ok
    THEN Fail("TokenProgramError", e, <<"cpi transfer">>)
    ELSE IF checked_add(e.total_withdrawn, amount) = -1
    THEN Fail("MathOverflow", e, <<"cpi transfer">>)
    ELSE Done([e EXCEPT !.total_withdrawn = checked_add(@, amount),
                        !.action_nonce = wrapping_add(@, 1)],
              0 - amount,
              <<"cpi transfer", "write total_withdrawn",
                "write action_nonce">>,
              FALSE)

emergency_withdraw(e, bal, amount, cpi_ok) ==
    IF ~is_paused(e) THEN Fail("EscrowNotPaused", e, <<>>)
    ELSE IF has_active_authority(e) THEN Fail("EscrowStillActive", e, <<>>)
    ELSE IF ~(amount > 0) THEN Fail("InvalidAmount", e, <<>>)
    ELSE IF ~(amount <= bal) THEN Fail("InsufficientBalance", e, <<>>)
    ELSE IF checked_add(e.total_withdrawn, amount) = -1
    THEN Fail("MathOverflow", e, <<>>)
    ELSE LET e1 == [e EXCEPT
                      !.total_withdrawn = checked_add(@, amount),
                      !.action_nonce = wrapping_add(@, 1)]
             steps == <<"write total_withdrawn", "write action_nonce",
                        "cpi transfer">>
         IN  IF ~cpi_ok
             THEN Fail("TokenProgramError", e1, steps)
             ELSE Done(e1, 0 - amount, steps, FALSE)

\* pause_escrow without the nonce increment.
pause_escrow_no_nonce(e, t) ==
    Done(set_paused(e, TRUE, t),
         0,
         <<"write flags", "write last_paused_at", "emit EscrowPaused">>,
         FALSE)

pause_escrow(e, t) ==
    Done([set_paused(e, TRUE, t)
          EXCEPT !.action_nonce = wrapping_add(@, 1)],
         0,
         <<"write flags", "write last_paused_at", "write action_nonce",
           "emit EscrowPaused">>,
         FALSE)

\* unpause_escrow refusing a record with an active authority.
unpause_escrow_needs_revoked(e, t) ==
    IF has_active_authority(e) THEN Fail("EscrowStillActive", e, <<>>)
    ELSE IF ~can_unpause(e, t) THEN Fail("CooldownNotElapsed", e, <<>>)
    ELSE Done([set_paused(e, FALSE, t)
               EXCEPT !.action_nonce = wrapping_add(@, 1)],
              0,
              <<"write flags", "write action_nonce", "emit EscrowUnpaused">>,
              FALSE)

unpause_escrow(e, t) ==
    IF ~can_unpause(e, t) THEN Fail("CooldownNotElapsed", e, <<>>)
    ELSE Done([set_paused(e, FALSE, t)
               EXCEPT !.action_nonce = wrapping_add(@, 1)],
              0,
              <<"write flags", "write action_nonce", "emit EscrowUnpaused">>,
              FALSE)

\* set_max_lifetime without the sign check.
set_max_lifetime_unchecked(e, max_lifetime_seconds) ==
    Done([e EXCEPT !.max_lifetime = max_lifetime_seconds,
                   !.action_nonce = wrapping_add(@, 1)],
         0,
         <<"write max_lifetime", "write action_nonce">>,
         FALSE)

set_max_lifetime(e, max_lifetime_seconds) ==
    IF ~(max_lifetime_seconds >= 0) THEN Fail("InvalidLifetime", e, <<>>)
    ELSE Done([e EXCEPT !.max_lifetime = max_lifetime_seconds,
                        !.action_nonce = wrapping_add(@, 1)],
              0,
              <<"write max_lifetime", "write action_nonce">>,
              FALSE)

\* close_escrow without the DUST_THRESHOLD check.
close_escrow_no_dust(e, bal, lamports, cpi_ok) ==
    IF is_paused(e) THEN Fail("EscrowPaused", e, <<>>)
    ELSE IF has_active_authority(e) THEN Fail("EscrowStillActive", e, <<>>)
    ELSE IF ~(lamports >= MIN_RENT_EXEMPT_LAMPORTS)
    THEN Fail("RentNotRecovered", e, <<>>)
    ELSE LET steps == <<"emit EscrowClosed", "cpi close_account">>
         IN  IF ~cpi_ok
             THEN Fail("TokenProgramError", e, steps)
             ELSE Done(e, 0 - bal, steps, TRUE)

close_escrow(e, bal, lamports, cpi_ok) ==
    IF is_paused(e) THEN Fail("EscrowPaused", e, <<>>)
    ELSE IF has_active_authority(e) THEN Fail("EscrowStillActive", e, <<>>)
    ELSE IF ~(bal <= DUST_THRESHOLD) THEN Fail("EscrowNotEmpty", e, <<>>)
    ELSE IF ~(lamports >= MIN_RENT_EXEMPT_LAMPORTS)
    THEN Fail("RentNotRecovered", e, <<>>)
    ELSE LET steps == <<"emit EscrowClosed", "cpi close_account">>
         IN  IF ~cpi_ok
             THEN Fail("TokenProgramError", e, steps)
             ELSE Done(e, 0 - bal, steps, TRUE)

\* ------------------------------------------------------------------------
\* The runtime: an instruction is a transaction
\* ------------------------------------------------------------------------
\* The events of a trace, in order.
Events(trace) == SelectSeq(trace, LAMBDA s : s \in EmitSteps)

\* The outcome of an instruction: the account validation v, then the handler.
Outcome(v, r) == IF v # "Ok" THEN Fail(v, escrow, <<>>) ELSE r

\* An instruction that returns Ok is committed: the record as the handler
\* left it and the tokens the token program moved.  One that returns an
\* error is rolled back: nothing it did is kept.
After(r) ==
    IF r.err = "Ok"
    THEN [live |-> ~r.closed,
          escrow |-> IF r.closed THEN NoEscrow ELSE r.escrow,
          vault |-> vault + r.moved]
    ELSE [live |-> live, escrow |-> escrow, vault |-> vault]

Commit(r) ==
    /\ live' = After(r).live
    /\ escrow' = After(r).escrow
    /\ vault' = After(r).vault
    /\ UNCHANGED <<now, answer, recovering>>

\* The history of the run, kept beside the program's state (the program
\* does not read it).  platform_since, trading_since: the time of the
\* committed delegate_platform_authority (delegate_trading_authority) that
\* no committed revocation or closure has followed, or Never.  mutations:
\* the number of committed record-mutating instructions since the record
\* was initialized, counted modulo U64_MAX + 1.  paused_since: the time of
\* the most recent committed pause_escrow, or Never.  fees_now: the sum of
\* the amounts of the committed withdraw_subscription_fee at the current
\* time.
Never == 0 - 1

MutatingOps ==
    {"deposit_token", "delegate_platform_authority",
     "delegate_trading_authority", "revoke_platform_authority",
     "revoke_trading_authority", "withdraw_subscription_fee",
     "withdraw_for_trade", "withdraw_token", "emergency_withdraw",
     "pause_escrow", "unpause_escrow", "set_max_lifetime"}

NoHistory ==
    [platform_since |-> Never, trading_since |-> Never, mutations |-> 0,
     paused_since |-> Never, fees_now |-> 0]

\* No predicate has been called: the instructions do not record theirs.
NoAnswer == [fn |-> "none", value |-> FALSE]

HistAfter(op, r) ==
    IF r.err # "Ok" THEN hist
    ELSE IF op \in {"initialize_escrow", "close_escrow"} THEN NoHistory
    ELSE [platform_since |->
              IF op = "delegate_platform_authority" THEN now
              ELSE IF op = "revoke_platform_authority" THEN Never
              ELSE hist.platform_since,
          trading_since |->
              IF op = "delegate_trading_authority" THEN now
              ELSE IF op = "revoke_trading_authority" THEN Never
              ELSE hist.trading_since,
          mutations |->
              IF op \in MutatingOps
              THEN (hist.mutations + 1) % (U64_MAX + 1)
              ELSE hist.mutations,
          paused_since |->
              IF op = "pause_escrow" THEN now ELSE hist.paused_since,
          fees_now |->
              IF op = "withdraw_subscription_fee"
              THEN hist.fees_now - r.moved
              ELSE hist.fees_now]

\* One instruction: the program's state is committed or rolled back, and
\* the history records it.
Step(op, r) ==
    /\ Commit(r)
    /\ hist' = HistAfter(op, r)

\* ------------------------------------------------------------------------
\* The instructions, called in the current state
\* ------------------------------------------------------------------------
initialize_escrow_ix(user, decimals, max_balance) ==
    Outcome(InitializeEscrow(live),
            initialize_escrow(user, Mint, decimals, Bump, max_balance, now))

deposit_token_ix(user, token_mint, amount, cpi_ok) ==
    Outcome(DepositToken(live, escrow, user, token_mint),
            deposit_token(escrow, vault, now, amount, cpi_ok))

delegate_platform_authority_ix(user, platform_authority) ==
    Outcome(DelegatePlatformAuthority(live, escrow, user),
            delegate_platform_authority(escrow, now, platform_authority))

delegate_trading_authority_ix(user, trading_authority) ==
    Outcome(DelegateTradingAuthority(live, escrow, user),
            delegate_trading_authority(escrow, now, trading_authority))

revoke_platform_authority_ix(user) ==
    Outcome(RevokePlatformAuthority(live, escrow, user),
            revoke_platform_authority(escrow))

revoke_trading_authority_ix(user) ==
    Outcome(RevokeTradingAuthority(live, escrow, user),
            revoke_trading_authority(escrow))

withdraw_subscription_fee_ix(signer, token_mint, amount, cpi_ok) ==
    Outcome(WithdrawSubscriptionFee(live, escrow, token_mint),
            withdraw_subscription_fee(escrow, vault, now, signer, amount,
                                      cpi_ok))

withdraw_for_trade_ix(signer, token_mint, amount, cpi_ok) ==
    Outcome(WithdrawForTrade(live, escrow, token_mint),
            withdraw_for_trade(escrow, vault, now, signer, amount, cpi_ok))

withdraw_token_ix(user, token_mint, amount, cpi_ok) ==
    Outcome(WithdrawToken(live, escrow, user, token_mint),
            withdraw_token(escrow, vault, amount, cpi_ok))

emergency_withdraw_ix(user, token_mint, amount, cpi_ok) ==
    Outcome(EmergencyWithdraw(live, escrow, user, token_mint),
            emergency_withdraw(escrow, vault, amount, cpi_ok))

pause_escrow_ix(user) ==
    Outcome(PauseEscrow(live, escrow, user), pause_escrow(escrow, now))

unpause_escrow_ix(user) ==
    Outcome(UnpauseEscrow(live, escrow, user), unpause_escrow(escrow, now))

set_max_lifetime_ix(user, max_lifetime_seconds) ==
    Outcome(SetMaxLifetime(live, escrow, user),
            set_max_lifetime(escrow, max_lifetime_seconds))

close_escrow_ix(user, lamports, cpi_ok) ==
    Outcome(CloseEscrow(live, escrow, user),
            close_escrow(escrow, vault, lamports, cpi_ok))

Init ==
    /\ live = FALSE
    /\ escrow = NoEscrow
    /\ vault = 0
    /\ now = StartTime
    /\ hist = NoHistory
    /\ answer = NoAnswer
    /\ recovering = FALSE

\* The clock advances.
Tick ==
    \E d \in ClockSteps :
        /\ now + d <= StartTime + MaxElapsed
        /\ now' = now + d
        /\ hist' = [hist EXCEPT !.fees_now = 0]
        /\ UNCHANGED <<live, escrow, vault, answer, recovering>>

\* An instruction is the account validation of its Accounts struct, then
\* its handler, then the runtime's commit or rollback.  The signer, the
\* accounts passed and the arguments are the caller's choice; whether the
\* token program carries out the requested call (cpi_ok) is not.
Ix_initialize_escrow ==
    IF InitializeEscrow(live) # "Ok"
    THEN UNCHANGED vars
    ELSE \E user \in InitSigners, decimals \in DecimalsInputs,
            max_balance \in MaxBalanceInputs :
            Step("initialize_escrow",
                 initialize_escrow(user, Mint, decimals, Bump, max_balance,
                                   now))

Ix_deposit_token ==
    \E user \in Signers, token_mint \in Mints :
        IF DepositToken(live, escrow, user, token_mint) # "Ok"
        THEN UNCHANGED vars
        ELSE \E amount \in DepositAmounts, cpi_ok \in BOOLEAN :
                Step("deposit_token",
                     deposit_token(escrow, vault, now, amount, cpi_ok))

Ix_delegate_platform_authority ==
    \E user \in Signers :
        IF DelegatePlatformAuthority(live, escrow, user) # "Ok"
        THEN UNCHANGED vars
        ELSE \E platform_authority \in PlatformTargets :
                Step("delegate_platform_authority",
                     delegate_platform_authority(escrow, now,
                                                   platform_authority))

Ix_delegate_trading_authority ==
    \E user \in Signers :
        IF DelegateTradingAuthority(live, escrow, user) # "Ok"
        THEN UNCHANGED vars
        ELSE \E trading_authority \in TradingTargets :
                Step("delegate_trading_authority",
                     delegate_trading_authority(escrow, now,
                                                  trading_authority))

Ix_revoke_platform_authority ==
    \E user \in Signers :
        IF RevokePlatformAuthority(live, escrow, user) # "Ok"
        THEN UNCHANGED vars
        ELSE Step("revoke_platform_authority",
                     revoke_platform_authority(escrow))

Ix_revoke_trading_authority ==
    \E user \in Signers :
        IF RevokeTradingAuthority(live, escrow, user) # "Ok"
        THEN UNCHANGED vars
        ELSE Step("revoke_trading_authority",
                     revoke_trading_authority(escrow))

Ix_withdraw_subscription_fee ==
    \E token_mint \in Mints :
        IF WithdrawSubscriptionFee(live, escrow, token_mint) # "Ok"
        THEN UNCHANGED vars
        ELSE \E platform_authority \in Signers, amount \in FeeAmounts,
                cpi_ok \in BOOLEAN :
                Step("withdraw_subscription_fee",
                     withdraw_subscription_fee(escrow, vault, now,
                                                 platform_authority, amount,
                                                 cpi_ok))

Ix_withdraw_for_trade ==
    \E token_mint \in Mints :
        IF WithdrawForTrade(live, escrow, token_mint) # "Ok"
        THEN UNCHANGED vars
        ELSE \E trading_authority \in Signers, amount \in TradeAmounts,
                cpi_ok \in BOOLEAN :
                Step("withdraw_for_trade",
                     withdraw_for_trade(escrow, vault, now,
                                          trading_authority, amount, cpi_ok))

Ix_withdraw_token ==
    \E user \in Signers, token_mint \in Mints :
        IF WithdrawToken(live, escrow, user, token_mint) # "Ok"
        THEN UNCHANGED vars
        ELSE \E amount \in WithdrawAmounts, cpi_ok \in BOOLEAN :
                Step("withdraw_token",
                     withdraw_token(escrow, vault, amount, cpi_ok))

Ix_emergency_withdraw ==
    \E user \in Signers, token_mint \in Mints :
        IF EmergencyWithdraw(live, escrow, user, token_mint) # "Ok"
        THEN UNCHANGED vars
        ELSE \E amount \in WithdrawAmounts, cpi_ok \in BOOLEAN :
                Step("emergency_withdraw",
                     emergency_withdraw(escrow, vault, amount, cpi_ok))

Ix_pause_escrow ==
    \E user \in Signers :
        IF PauseEscrow(live, escrow, user) # "Ok"
        THEN UNCHANGED vars
        ELSE Step("pause_escrow",
                     pause_escrow(escrow, now))

Ix_unpause_escrow ==
    \E user \in Signers :
        IF UnpauseEscrow(live, escrow, user) # "Ok"
        THEN UNCHANGED vars
        ELSE Step("unpause_escrow",
                     unpause_escrow(escrow, now))

Ix_set_max_lifetime ==
    \E user \in Signers :
        IF SetMaxLifetime(live, escrow, user) # "Ok"
        THEN UNCHANGED vars
        ELSE \E max_lifetime_seconds \in LifetimeInputs :
                Step("set_max_lifetime",
                     set_max_lifetime(escrow, max_lifetime_seconds))

Ix_close_escrow ==
    \E user \in Signers :
        IF CloseEscrow(live, escrow, user) # "Ok"
        THEN UNCHANGED vars
        ELSE \E lamports \in LamportsInputs, cpi_ok \in BOOLEAN :
                Step("close_escrow",
                     close_escrow(escrow, vault, lamports, cpi_ok))

Next ==
    \/ Tick
    \/ Ix_initialize_escrow
    \/ Ix_deposit_token
    \/ Ix_delegate_platform_authority
    \/ Ix_delegate_trading_authority
    \/ Ix_revoke_platform_authority
    \/ Ix_revoke_trading_authority
    \/ Ix_withdraw_subscription_fee
    \/ Ix_withdraw_for_trade
    \/ Ix_withdraw_token
    \/ Ix_emergency_withdraw
    \/ Ix_pause_escrow
    \/ Ix_unpause_escrow
    \/ Ix_set_max_lifetime
    \/ Ix_close_escrow

Spec == Init /\ [][Next]_vars

\* ------------------------------------------------------------------------
\* state.rs: the methods of EscrowAccount, called as its unit tests call
\* them, on a record built by hand and with a timestamp the caller supplies
\* ------------------------------------------------------------------------
\* The timestamps of the tests, and one before the record was created.
TestTimes == {999, 1000, 1100, 1101, 1299, 1300}
\* The activation times and the lifetimes a test assigns, and the creation
\* time of create_test_escrow() and a later one.
TestActivations == {0, 1000}
TestLifetimes == {0, 100}
TestCreations == {1000, 1100}

\* create_test_escrow(), and the fields a test assigns before its calls.
TestRecords ==
    {[NoEscrow EXCEPT !.bump = Bump,
                      !.created_at = c,
                      !.platform_activated_at = p,
                      !.trading_activated_at = t,
                      !.max_lifetime = m] :
        c \in TestCreations, p \in TestActivations, t \in TestActivations,
        m \in TestLifetimes}

StateInit ==
    /\ live = TRUE
    /\ escrow \in TestRecords
    /\ vault = 0
    /\ now \in TestTimes
    /\ hist = NoHistory
    /\ answer = NoAnswer
    /\ recovering = FALSE

\* The caller supplies another timestamp.
Call_at ==
    \E t \in TestTimes :
        /\ now' = t
        /\ answer' = NoAnswer
        /\ UNCHANGED <<live, escrow, vault, hist, recovering>>

Call_set_paused ==
    \E paused \in BOOLEAN :
        /\ escrow' = set_paused(escrow, paused, now)
        /\ answer' = NoAnswer
        /\ UNCHANGED <<live, vault, now, hist, recovering>>

Call_is_expired ==
    /\ answer' = [fn |-> "is_expired", value |-> is_expired(escrow, now)]
    /\ UNCHANGED <<live, escrow, vault, now, hist, recovering>>

Call_can_unpause ==
    /\ answer' = [fn |-> "can_unpause", value |-> can_unpause(escrow, now)]
    /\ UNCHANGED <<live, escrow, vault, now, hist, recovering>>

Call_is_platform_authority_mature ==
    /\ answer' = [fn |-> "is_platform_authority_mature",
                  value |-> is_platform_authority_mature(escrow, now)]
    /\ UNCHANGED <<live, escrow, vault, now, hist, recovering>>

Call_is_trading_authority_mature ==
    /\ answer' = [fn |-> "is_trading_authority_mature",
                  value |-> is_trading_authority_mature(escrow, now)]
    /\ UNCHANGED <<live, escrow, vault, now, hist, recovering>>

StateNext ==
    \/ Call_at
    \/ Call_set_paused
    \/ Call_is_expired
    \/ Call_can_unpause
    \/ Call_is_platform_authority_mature
    \/ Call_is_trading_authority_mature

SpecState == StateInit /\ [][StateNext]_vars

\* ------------------------------------------------------------------------
\* The owner takes the held balance back.  Until the owner sets out to, the
\* owner creates the record, deposits, delegates and pauses; from then on
\* the owner calls unpause_escrow, the revocations and withdraw_token only.
\* The delegates call their withdrawals throughout, and the clock runs on.
\* ------------------------------------------------------------------------
\* A call of the recovery or of a delegate waits on the clock: the cooldown
\* of the pause, or the age of an active authority, has not elapsed.
Waiting(e, t) ==
    \/ is_paused(e) /\ ~can_unpause(e, t)
    \/ is_platform_active(e) /\ ~is_platform_authority_mature(e, t)
    \/ is_trading_active(e) /\ ~is_trading_authority_mature(e, t)

\* The owner's calls before the recovery.
Owner_initialize_escrow ==
    /\ ~recovering
    /\ \E max_balance \in MaxBalanceInputs :
           Step("initialize_escrow",
                initialize_escrow_ix(Owner, MIN_TOKEN_DECIMALS, max_balance))

Owner_deposit_token ==
    /\ ~recovering
    /\ \E amount \in DepositAmounts :
           Step("deposit_token", deposit_token_ix(Owner, Mint, amount, TRUE))

Owner_delegate_platform_authority ==
    /\ ~recovering
    /\ \E platform_authority \in PlatformTargets :
           Step("delegate_platform_authority",
                delegate_platform_authority_ix(Owner, platform_authority))

Owner_delegate_trading_authority ==
    /\ ~recovering
    /\ \E trading_authority \in TradingTargets :
           Step("delegate_trading_authority",
                delegate_trading_authority_ix(Owner, trading_authority))

Owner_pause_escrow ==
    /\ ~recovering
    /\ Step("pause_escrow", pause_escrow_ix(Owner))

\* The clock before the recovery.
ClockAdvances == ~recovering /\ Tick

\* The owner of a live record that holds tokens sets out to take them back.
OwnerSetsOut ==
    /\ ~recovering
    /\ live
    /\ vault > 0
    /\ recovering' = TRUE
    /\ UNCHANGED <<live, escrow, vault, now, hist, answer>>

\* The clock of the recovery; it is followed for as long as a call waits
\* on it.
ClockRunsOn ==
    /\ recovering
    /\ Waiting(escrow, now)
    /\ \E d \in ClockSteps :
           /\ now' = now + d
           /\ hist' = [hist EXCEPT !.fees_now = 0]
           /\ UNCHANGED <<live, escrow, vault, answer, recovering>>

\* The owner's calls of the recovery: unpause_escrow on a paused record,
\* the revocation of an authority that is set, withdraw_token of the whole
\* balance.
Owner_unpause_escrow ==
    /\ recovering
    /\ is_paused(escrow)
    /\ Step("unpause_escrow", unpause_escrow_ix(Owner))

Owner_revoke_platform_authority ==
    /\ recovering
    /\ escrow.platform_authority # DefaultPubkey
    /\ Step("revoke_platform_authority", revoke_platform_authority_ix(Owner))

Owner_revoke_trading_authority ==
    /\ recovering
    /\ escrow.trading_authority # DefaultPubkey
    /\ Step("revoke_trading_authority", revoke_trading_authority_ix(Owner))

Owner_withdraw_token ==
    /\ recovering
    /\ \E cpi_ok \in BOOLEAN :
           Step("withdraw_token",
                withdraw_token_ix(Owner, Mint, vault, cpi_ok))

RecoverNext ==
    \/ Owner_initialize_escrow
    \/ Owner_deposit_token
    \/ Owner_delegate_platform_authority
    \/ Owner_delegate_trading_authority
    \/ Owner_pause_escrow
    \/ ClockAdvances
    \/ OwnerSetsOut
    \/ ClockRunsOn
    \/ Owner_unpause_escrow
    \/ Owner_revoke_platform_authority
    \/ Owner_revoke_trading_authority
    \/ Owner_withdraw_token
    \/ Ix_withdraw_subscription_fee
    \/ Ix_withdraw_for_trade

\* The clock keeps advancing, and the owner goes on with each call of the
\* recovery for as long as it can succeed.
RecoverFairness ==
    /\ WF_vars(ClockRunsOn)
    /\ WF_vars(Owner_unpause_escrow)
    /\ WF_vars(Owner_revoke_platform_authority)
    /\ WF_vars(Owner_revoke_trading_authority)
    /\ WF_vars(Owner_withdraw_token)

SpecRecover == Init /\ [][RecoverNext]_vars /\ RecoverFairness

\* ------------------------------------------------------------------------
\* Properties
\* ------------------------------------------------------------------------
\* The inputs the properties range over.
Amounts == U64
\* Amounts for the calls that are refused before the amount is read.
AnyAmounts == {0, 1, U64_MAX}
\* Every amount for a call that names the record's accounts, a few for one
\* that does not.
AmountsFor(well_formed) == IF well_formed THEN Amounts ELSE AnyAmounts
Targets == {DefaultPubkey, "A", "B"}

\* The handler returned before it did anything.
NothingDone(r) ==
    /\ r.escrow = escrow
    /\ r.moved = 0
    /\ r.trace = <<>>
    /\ ~r.closed

\* The state is what it was before the instruction.
NothingChanged(r) ==
    After(r) = [live |-> live, escrow |-> escrow, vault |-> vault]

NoAuthoritySet ==
    /\ escrow.platform_authority = DefaultPubkey
    /\ escrow.trading_authority = DefaultPubkey

\* The call failed before it did anything, and the state is what it was.
Refused(r) ==
    /\ r.err # "Ok"
    /\ NothingDone(r)
    /\ NothingChanged(r)

\* The call failed and the state is what it was.
FailsUnchanged(r) ==
    /\ r.err # "Ok"
    /\ NothingChanged(r)

\* A failed instruction changed nothing, and unless it was the token
\* program that refused, its handler returned before it did anything.
Atomic(r) ==
    \/ r.err = "Ok"
    \/ /\ NothingChanged(r)
       /\ r.err = "TokenProgramError" \/ NothingDone(r)

\* The same of an instruction that calls the token program, which carries
\* out the call (cpi_ok) or refuses it.
AtomicCpi(r, cpi_ok) ==
    IF r.err = "Ok" THEN cpi_ok ELSE Atomic(r)

\* action_nonce after the instruction.
NonceAfter(r) == After(r).escrow.action_nonce

\* One more after Ok, the same after a failure.
PlusOne(r) ==
    NonceAfter(r) = IF r.err = "Ok"
                    THEN escrow.action_nonce + 1
                    ELSE escrow.action_nonce

\* The same, the increment wrapping at 2^w.
PlusOneMod(r) ==
    NonceAfter(r) = IF r.err = "Ok"
                    THEN (escrow.action_nonce + 1) % (U64_MAX + 1)
                    ELSE escrow.action_nonce

\* The record with no lifetime limit, and so never expired.
Unlimited(e) == [e EXCEPT !.max_lifetime = 0]

\* Two outcomes that differ at most in the record's max_lifetime.
SameOutcome(r1, r2) ==
    /\ r1.err = r2.err
    /\ r1.moved = r2.moved
    /\ r1.trace = r2.trace
    /\ r1.closed = r2.closed
    /\ Unlimited(r1.escrow) = Unlimited(r2.escrow)

\* The events the instruction leaves in the log: the ones its handler
\* emitted when it returns Ok, none when it fails.
Logged(r) == IF r.err = "Ok" THEN Events(r.trace) ELSE <<>>

\* One event, ev, after Ok, none after a failure.
LogsOne(r, ev) == Logged(r) = IF r.err = "Ok" THEN <<ev>> ELSE <<>>

\* The amounts of the round trip: a deposit within the default ceiling and
\* its two halves, each within the per-trade cap.
RoundTripHalf == DEFAULT_MAX_BALANCE \div 2
RoundTripDeposit == 2 * RoundTripHalf

\* The instructions of the round trip, each called on the record and the
\* sub-account as the one before left them: a record created at time t0
\* by the owner, the trade withdrawal d seconds later.  The result is the
\* sequence of the seven outcomes and the vault before the closure.
RoundTrip(t0, d) ==
    LET T == "B"
        r1 == IF InitializeEscrow(FALSE) # "Ok"
              THEN Fail(InitializeEscrow(FALSE), NoEscrow, <<>>)
              ELSE initialize_escrow(Owner, Mint, MIN_TOKEN_DECIMALS, Bump,
                                     0, t0)
        r2 == IF DepositToken(TRUE, r1.escrow, Owner, Mint) # "Ok"
              THEN Fail(DepositToken(TRUE, r1.escrow, Owner, Mint),
                        r1.escrow, <<>>)
              ELSE deposit_token(r1.escrow, 0, t0, RoundTripDeposit, TRUE)
        v2 == 0 + r2.moved
        r3 == IF DelegateTradingAuthority(TRUE, r2.escrow, Owner) # "Ok"
              THEN Fail(DelegateTradingAuthority(TRUE, r2.escrow, Owner),
                        r2.escrow, <<>>)
              ELSE delegate_trading_authority(r2.escrow, t0, T)
        r4 == IF WithdrawForTrade(TRUE, r3.escrow, Mint) # "Ok"
              THEN Fail(WithdrawForTrade(TRUE, r3.escrow, Mint),
                        r3.escrow, <<>>)
              ELSE withdraw_for_trade(r3.escrow, v2, t0 + d, T,
                                      RoundTripHalf, TRUE)
        v4 == v2 + r4.moved
        r5 == IF RevokeTradingAuthority(TRUE, r4.escrow, Owner) # "Ok"
              THEN Fail(RevokeTradingAuthority(TRUE, r4.escrow, Owner),
                        r4.escrow, <<>>)
              ELSE revoke_trading_authority(r4.escrow)
        r6 == IF WithdrawToken(TRUE, r5.escrow, Owner, Mint) # "Ok"
              THEN Fail(WithdrawToken(TRUE, r5.escrow, Owner, Mint),
                        r5.escrow, <<>>)
              ELSE withdraw_token(r5.escrow, v4, RoundTripHalf, TRUE)
        v6 == v4 + r6.moved
        r7 == IF CloseEscrow(TRUE, r6.escrow, Owner) # "Ok"
              THEN Fail(CloseEscrow(TRUE, r6.escrow, Owner), r6.escrow, <<>>)
              ELSE close_escrow(r6.escrow, v6, MIN_RENT_EXEMPT_LAMPORTS, TRUE)
    IN  [outcomes |-> <<r1, r2, r3, r4, r5, r6, r7>>, vault |-> v6]

\* The record and the vault of the round trip just before the closure.
RoundTripEnd(e, bal) ==
    /\ e.total_deposited = RoundTripDeposit
    /\ e.total_traded = RoundTripHalf
    /\ e.total_withdrawn = RoundTripHalf
    /\ e.total_fees_paid = 0
    /\ e.action_nonce = 5
    /\ bal = 0

TypeOK ==
    /\ live \in BOOLEAN
    /\ vault \in U64
    /\ now \in StartTime..(StartTime + MaxElapsed)
    /\ escrow.user \in Signers \cup {DefaultPubkey}
    /\ escrow.platform_authority \in Targets
    /\ escrow.trading_authority \in Targets
    /\ escrow.flags \in 0..7
    /\ escrow.action_nonce \in U64
    /\ escrow.total_deposited \in U64
    /\ escrow.total_withdrawn \in U64
    /\ escrow.total_fees_paid \in U64
    /\ escrow.total_traded \in U64
    /\ escrow.max_balance \in U64
    /\ hist.platform_since \in {Never} \cup (StartTime..now)
    /\ hist.trading_since \in {Never} \cup (StartTime..now)
    /\ hist.mutations \in U64
    /\ hist.paused_since \in {Never} \cup (StartTime..now)
    /\ hist.fees_now \in U64
    /\ answer = NoAnswer
    /\ recovering = FALSE
    /\ ~live => escrow = NoEscrow /\ vault = 0 /\ hist = NoHistory

(***************************************************************************)
(* C1.  The owner's withdrawal and the closure are gated by the active     *)
(* authorities.  In every reachable state of a live, unpaused record:      *)
(* withdraw_token called by the owner with the record's mint and           *)
(* 0 < amount <= vault, the token program carrying out the transfer,       *)
(* fails exactly when has_active_authority() is true, and then with        *)
(* EscrowStillActive and without having done anything; close_escrow called *)
(* by the owner with vault <= DUST_THRESHOLD and lamports at the floor     *)
(* fails exactly when has_active_authority() is true, in the same way.     *)
(* And whatever the signer and the arguments, no withdraw_token,           *)
(* emergency_withdraw or close_escrow returns Ok while platform_authority  *)
(* or trading_authority is set.                                            *)
(***************************************************************************)
C1_OwnerGate ==
    live =>
        /\ \A amount \in Amounts :
            (~is_paused(escrow) /\ 0 < amount /\ amount <= vault) =>
                LET r == withdraw_token_ix(escrow.user, escrow.token_mint,
                                           amount, TRUE)
                IN  /\ (r.err # "Ok") <=> has_active_authority(escrow)
                    /\ has_active_authority(escrow) =>
                        /\ r.err = "EscrowStillActive"
                        /\ NothingDone(r)
                        /\ NothingChanged(r)
        /\ (~is_paused(escrow) /\ vault <= DUST_THRESHOLD) =>
                LET r == close_escrow_ix(escrow.user,
                                         MIN_RENT_EXEMPT_LAMPORTS, TRUE)
                IN  /\ (r.err # "Ok") <=> has_active_authority(escrow)
                    /\ has_active_authority(escrow) =>
                        /\ r.err = "EscrowStillActive"
                        /\ NothingDone(r)
                        /\ NothingChanged(r)
        /\ \/ NoAuthoritySet
           \/ /\ \A user \in Signers, token_mint \in Mints,
                    amount \in Amounts, cpi_ok \in BOOLEAN :
                   /\ withdraw_token_ix(user, token_mint, amount,
                                        cpi_ok).err # "Ok"
                   /\ emergency_withdraw_ix(user, token_mint, amount,
                                            cpi_ok).err # "Ok"
              /\ \A user \in Signers, lamports \in LamportsInputs,
                    cpi_ok \in BOOLEAN :
                   close_escrow_ix(user, lamports, cpi_ok).err # "Ok"

\* A delegate is set, the record is unpaused and holds tokens, and the
\* owner's withdrawal of all of them is refused with EscrowStillActive.
C1_Witness ==
    /\ live
    /\ ~is_paused(escrow)
    /\ escrow.trading_authority # DefaultPubkey
    /\ vault > DUST_THRESHOLD
    /\ withdraw_token_ix(escrow.user, Mint, vault, TRUE).err
           = "EscrowStillActive"

(***************************************************************************)
(* C2.  Every instruction succeeds only for the caller of its role.  In    *)
(* every reachable state of a live record: each owner instruction          *)
(* (deposit_token, both delegations, both revocations, withdraw_token,     *)
(* emergency_withdraw, pause_escrow, unpause_escrow, set_max_lifetime,     *)
(* close_escrow) signed by anyone but escrow.user fails, whatever its      *)
(* arguments and even with the token program ready to carry out the        *)
(* transfer, and does and changes nothing;                                 *)
(* withdraw_subscription_fee returns Ok only if its signer is              *)
(* escrow.platform_authority and that is not the default key, and          *)
(* withdraw_for_trade only if its signer is escrow.trading_authority and   *)
(* that is not the default key.  While platform_authority                  *)
(* (trading_authority) is the default key, as it is after a revocation     *)
(* and until the next delegation, a fee (trade) withdrawal by any signer   *)
(* that passes the pause, amount and cap checks fails with                 *)
(* UnauthorizedPlatform (UnauthorizedTrading).                             *)
(***************************************************************************)
C2_CallerOfRole ==
    live =>
        /\ \A user \in (Signers \cup {DefaultPubkey}) \ {escrow.user} :
            /\ \A token_mint \in Mints, amount \in AnyAmounts :
                /\ Refused(deposit_token_ix(user, token_mint, amount, TRUE))
                /\ Refused(withdraw_token_ix(user, token_mint, amount, TRUE))
                /\ Refused(emergency_withdraw_ix(user, token_mint, amount,
                                                 TRUE))
            /\ \A target \in Targets :
                /\ Refused(delegate_platform_authority_ix(user, target))
                /\ Refused(delegate_trading_authority_ix(user, target))
            /\ Refused(revoke_platform_authority_ix(user))
            /\ Refused(revoke_trading_authority_ix(user))
            /\ Refused(pause_escrow_ix(user))
            /\ Refused(unpause_escrow_ix(user))
            /\ \A max_lifetime_seconds \in LifetimeInputs :
                Refused(set_max_lifetime_ix(user, max_lifetime_seconds))
            /\ \A lamports \in LamportsInputs :
                Refused(close_escrow_ix(user, lamports, TRUE))
        /\ \A signer \in Signers \cup {DefaultPubkey}, token_mint \in Mints,
              amount \in Amounts :
            /\ withdraw_subscription_fee_ix(signer, token_mint, amount,
                                            TRUE).err = "Ok"
                   => /\ signer = escrow.platform_authority
                      /\ escrow.platform_authority # DefaultPubkey
            /\ withdraw_for_trade_ix(signer, token_mint, amount,
                                     TRUE).err = "Ok"
                   => /\ signer = escrow.trading_authority
                      /\ escrow.trading_authority # DefaultPubkey
        /\ (escrow.platform_authority = DefaultPubkey /\ ~is_paused(escrow))
               => \A signer \in Signers, amount \in 1..MAX_SUBSCRIPTION_FEE :
                   LET r == withdraw_subscription_fee_ix(
                                signer, escrow.token_mint, amount, TRUE)
                   IN  /\ r.err = "UnauthorizedPlatform"
                       /\ NothingDone(r)
                       /\ NothingChanged(r)
        /\ (escrow.trading_authority = DefaultPubkey /\ ~is_paused(escrow))
               => \A signer \in Signers, amount \in 1..MAX_TRANSACTION_AMOUNT :
                   LET r == withdraw_for_trade_ix(
                                signer, escrow.token_mint, amount, TRUE)
                   IN  /\ r.err = "UnauthorizedTrading"
                       /\ NothingDone(r)
                       /\ NothingChanged(r)

\* The platform authority drew a fee and was revoked; the record is
\* unpaused and still holds tokens, and a fee withdrawal signed by "A" is
\* refused with UnauthorizedPlatform.
C2_Witness ==
    /\ live
    /\ ~is_paused(escrow)
    /\ escrow.total_fees_paid > 0
    /\ escrow.platform_authority = DefaultPubkey
    /\ vault > 0
    /\ withdraw_subscription_fee_ix("A", Mint, 1, TRUE).err
           = "UnauthorizedPlatform"

(***************************************************************************)
(* C3.  The time-lock.  The clock never goes back.  In every reachable     *)
(* state, a withdraw_subscription_fee that returns Ok at time now, whoever *)
(* signs it and whatever its arguments, is preceded by a committed         *)
(* delegate_platform_authority at a time t with now - t >=                 *)
(* MIN_AUTHORITY_AGE and with no committed revoke_platform_authority       *)
(* since, t being the time of the most recent such delegation              *)
(* (hist.platform_since); and likewise withdraw_for_trade,                 *)
(* delegate_trading_authority and revoke_trading_authority                 *)
(* (hist.trading_since).  A delegation after a revocation starts the age   *)
(* again from its own time.                                                *)
(***************************************************************************)
C3_TimeLock ==
    \A signer \in Signers, token_mint \in Mints, amount \in Amounts :
        /\ withdraw_subscription_fee_ix(signer, token_mint, amount,
                                        TRUE).err = "Ok"
               => /\ hist.platform_since # Never
                  /\ now - hist.platform_since >= MIN_AUTHORITY_AGE
        /\ withdraw_for_trade_ix(signer, token_mint, amount,
                                 TRUE).err = "Ok"
               => /\ hist.trading_since # Never
                  /\ now - hist.trading_since >= MIN_AUTHORITY_AGE

\* A fee has been drawn, and the platform authority, delegated
\* MIN_AUTHORITY_AGE ago or earlier, can draw another one now.
C3_Witness ==
    /\ live
    /\ escrow.total_fees_paid > 0
    /\ hist.platform_since # Never
    /\ now - hist.platform_since >= MIN_AUTHORITY_AGE
    /\ withdraw_subscription_fee_ix(escrow.platform_authority, Mint, 1,
                                    TRUE).err = "Ok"

\* Over the cap, a fee or trade withdrawal is refused with AmountTooLarge.
C4_OverCapRefused ==
    (live /\ ~is_paused(escrow)) =>
        \A signer \in Signers, cpi_ok \in BOOLEAN :
            /\ \A amount \in (MAX_SUBSCRIPTION_FEE + 1)..U64_MAX :
                LET r == withdraw_subscription_fee_ix(
                             signer, escrow.token_mint, amount, cpi_ok)
                IN  /\ r = Fail("AmountTooLarge", escrow, <<>>)
                    /\ NothingChanged(r)
            /\ \A amount \in (MAX_TRANSACTION_AMOUNT + 1)..U64_MAX :
                LET r == withdraw_for_trade_ix(
                             signer, escrow.token_mint, amount, cpi_ok)
                IN  /\ r = Fail("AmountTooLarge", escrow, <<>>)
                    /\ NothingChanged(r)

\* A step adds at most the cap to total_fees_paid and total_traded.
C4_StepWithinCap ==
    /\ escrow'.total_fees_paid - escrow.total_fees_paid
           <= MAX_SUBSCRIPTION_FEE
    /\ escrow'.total_traded - escrow.total_traded <= MAX_TRANSACTION_AMOUNT

(***************************************************************************)
(* C4.  The per-call caps.  In every reachable state of a live, unpaused   *)
(* record, withdraw_subscription_fee with the record's mint and            *)
(* amount > MAX_SUBSCRIPTION_FEE fails with AmountTooLarge, whoever signs  *)
(* it (the mature platform authority included) and whatever the vault      *)
(* holds, and does and changes nothing; so does withdraw_for_trade with    *)
(* amount > MAX_TRANSACTION_AMOUNT.  And no step of the program increases  *)
(* total_fees_paid by more than MAX_SUBSCRIPTION_FEE or total_traded by    *)
(* more than MAX_TRANSACTION_AMOUNT.                                       *)
(***************************************************************************)
C4_PerCallCaps == [](C4_OverCapRefused) /\ [][C4_StepWithinCap]_vars

\* The trading authority is mature, the vault holds more than the cap, and
\* a trade withdrawal of one unit more than the cap, signed by the trading
\* authority, is refused with AmountTooLarge.
C4_Witness ==
    /\ live
    /\ ~is_paused(escrow)
    /\ is_trading_authority_mature(escrow, now)
    /\ vault > MAX_TRANSACTION_AMOUNT
    /\ withdraw_for_trade_ix(escrow.trading_authority, Mint,
                             MAX_TRANSACTION_AMOUNT + 1, TRUE).err
           = "AmountTooLarge"

(***************************************************************************)
(* C5.  The global pause precondition, as claimed: in every reachable      *)
(* state of a live record whose paused flag is set, deposit_token, both    *)
(* delegations, both revocations, withdraw_subscription_fee,               *)
(* withdraw_for_trade, withdraw_token, pause_escrow, set_max_lifetime and  *)
(* close_escrow fail, whoever signs them and whatever their arguments, and *)
(* leave the record, the nonce and the vault as they were.                 *)
(***************************************************************************)
C5_PausedRefusesAll ==
    (live /\ is_paused(escrow)) =>
        \A user \in Signers :
            /\ \A token_mint \in Mints, amount \in Amounts,
                  cpi_ok \in BOOLEAN :
                /\ FailsUnchanged(deposit_token_ix(user, token_mint, amount,
                                                   cpi_ok))
                /\ FailsUnchanged(withdraw_subscription_fee_ix(
                                      user, token_mint, amount, cpi_ok))
                /\ FailsUnchanged(withdraw_for_trade_ix(
                                      user, token_mint, amount, cpi_ok))
                /\ FailsUnchanged(withdraw_token_ix(user, token_mint, amount,
                                                    cpi_ok))
            /\ \A target \in Targets :
                /\ FailsUnchanged(delegate_platform_authority_ix(user,
                                                                 target))
                /\ FailsUnchanged(delegate_trading_authority_ix(user,
                                                                target))
            /\ FailsUnchanged(revoke_platform_authority_ix(user))
            /\ FailsUnchanged(revoke_trading_authority_ix(user))
            /\ \A lamports \in LamportsInputs, cpi_ok \in BOOLEAN :
                FailsUnchanged(close_escrow_ix(user, lamports, cpi_ok))
            /\ FailsUnchanged(pause_escrow_ix(user))
            /\ \A max_lifetime_seconds \in LifetimeInputs :
                FailsUnchanged(set_max_lifetime_ix(user,
                                                   max_lifetime_seconds))

(***************************************************************************)
(* C6.  emergency_withdraw.  In every reachable state, emergency_withdraw  *)
(* returns Ok, whoever signs it and whatever its arguments, only if the    *)
(* record is live and paused, neither authority is set or flagged active,  *)
(* the signer is the owner and 0 < amount <= vault.  Called by the owner   *)
(* with the record's mint on a live record that is not paused, it fails    *)
(* with EscrowNotPaused for every amount, whatever the vault holds and     *)
(* whichever authorities are set, and does and changes nothing.            *)
(***************************************************************************)
C6_EmergencyOnlyPaused ==
    /\ \A user \in Signers, token_mint \in Mints, amount \in Amounts :
        emergency_withdraw_ix(user, token_mint, amount, TRUE).err = "Ok"
            => /\ live
               /\ is_paused(escrow)
               /\ ~has_active_authority(escrow)
               /\ NoAuthoritySet
               /\ user = escrow.user
               /\ 0 < amount
               /\ amount <= vault
    /\ (live /\ ~is_paused(escrow)) =>
        \A amount \in Amounts, cpi_ok \in BOOLEAN :
            LET r == emergency_withdraw_ix(escrow.user, escrow.token_mint,
                                           amount, cpi_ok)
            IN  /\ r = Fail("EscrowNotPaused", escrow, <<>>)
                /\ NothingChanged(r)

\* The record is paused with no authority set and holds tokens, and the
\* owner's emergency withdrawal of all of them returns Ok.
C6_Witness ==
    /\ live
    /\ is_paused(escrow)
    /\ NoAuthoritySet
    /\ vault > 0
    /\ emergency_withdraw_ix(escrow.user, Mint, vault, TRUE).err = "Ok"

(***************************************************************************)
(* C7.  The deposit ceiling.  The vault changes only through the program.  *)
(* In every reachable state of a live record: vault <= max_balance; no     *)
(* deposit_token with vault + amount > max_balance returns Ok, whoever     *)
(* signs it, and it changes nothing; called by the owner with the          *)
(* record's mint on an unpaused, unexpired record, a deposit with          *)
(* vault + amount > max_balance (the sum within the u64 range) fails with  *)
(* MaxBalanceExceeded and does nothing, and a deposit with                 *)
(* 0 < amount and vault + amount <= max_balance, the ceiling itself        *)
(* included, returns Ok and adds amount to the vault, provided             *)
(* total_deposited + amount is within the u64 range and the token program  *)
(* carries out the transfer.                                               *)
(***************************************************************************)
C7_DepositCeiling ==
    live =>
        /\ vault <= escrow.max_balance
        /\ \A amount \in (escrow.max_balance - vault + 1)..U64_MAX :
            \A user \in Signers, token_mint \in Mints, cpi_ok \in BOOLEAN :
                FailsUnchanged(deposit_token_ix(user, token_mint, amount,
                                                cpi_ok))
        /\ (~is_paused(escrow) /\ ~is_expired(escrow, now)) =>
            \A amount \in 1..U64_MAX :
                LET r == deposit_token_ix(escrow.user, escrow.token_mint,
                                          amount, TRUE)
                IN  /\ ( /\ vault + amount > escrow.max_balance
                         /\ vault + amount <= U64_MAX )
                           => r = Fail("MaxBalanceExceeded", escrow, <<>>)
                    /\ ( /\ vault + amount <= escrow.max_balance
                         /\ escrow.total_deposited + amount <= U64_MAX )
                           => /\ r.err = "Ok"
                              /\ After(r).vault = vault + amount

\* Deposits have filled the vault exactly to the ceiling, and the owner's
\* deposit of one more unit is refused with MaxBalanceExceeded.
C7_Witness ==
    /\ live
    /\ ~is_paused(escrow)
    /\ escrow.total_deposited > 0
    /\ vault = escrow.max_balance
    /\ deposit_token_ix(escrow.user, Mint, 1, TRUE).err
           = "MaxBalanceExceeded"

C9_NoncePlusOne ==
    live =>
        /\ \A user \in Signers, token_mint \in Mints, cpi_ok \in BOOLEAN :
            /\ \A amount \in AmountsFor(user = escrow.user
                                        /\ token_mint = escrow.token_mint) :
                /\ PlusOne(deposit_token_ix(user, token_mint, amount,
                                            cpi_ok))
                /\ PlusOne(withdraw_token_ix(user, token_mint, amount,
                                             cpi_ok))
                /\ PlusOne(emergency_withdraw_ix(user, token_mint, amount,
                                                 cpi_ok))
            /\ \A amount \in AmountsFor(token_mint = escrow.token_mint) :
                /\ PlusOne(withdraw_subscription_fee_ix(
                               user, token_mint, amount, cpi_ok))
                /\ PlusOne(withdraw_for_trade_ix(
                               user, token_mint, amount, cpi_ok))
        /\ \A user \in Signers :
            /\ \A target \in Targets :
                /\ PlusOne(delegate_platform_authority_ix(user, target))
                /\ PlusOne(delegate_trading_authority_ix(user, target))
            /\ PlusOne(revoke_platform_authority_ix(user))
            /\ PlusOne(revoke_trading_authority_ix(user))
            /\ PlusOne(pause_escrow_ix(user))
            /\ PlusOne(unpause_escrow_ix(user))
            /\ \A max_lifetime_seconds \in LifetimeInputs :
                PlusOne(set_max_lifetime_ix(user, max_lifetime_seconds))

(***************************************************************************)
(* C9, amended.  In every reachable state of a live record, every          *)
(* record-mutating instruction that returns Ok leaves action_nonce at its  *)
(* value before plus 1 modulo 2^w (U64_MAX + 1: from the maximum it goes   *)
(* to 0), and every one that fails leaves it unchanged; and action_nonce   *)
(* is the number of committed record-mutating instructions since           *)
(* initialize_escrow set it to 0, modulo 2^w.                              *)
(***************************************************************************)
C9_NonceSequencing ==
    [](live =>
           /\ escrow.action_nonce = hist.mutations
           /\ \A user \in Signers, token_mint \in Mints, cpi_ok \in BOOLEAN :
               /\ \A amount \in AmountsFor(user = escrow.user
                                           /\ token_mint = escrow.token_mint) :
                   /\ PlusOneMod(deposit_token_ix(user, token_mint, amount,
                                                  cpi_ok))
                   /\ PlusOneMod(withdraw_token_ix(user, token_mint, amount,
                                                   cpi_ok))
                   /\ PlusOneMod(emergency_withdraw_ix(user, token_mint, amount,
                                                       cpi_ok))
               /\ \A amount \in AmountsFor(token_mint = escrow.token_mint) :
                   /\ PlusOneMod(withdraw_subscription_fee_ix(
                                     user, token_mint, amount, cpi_ok))
                   /\ PlusOneMod(withdraw_for_trade_ix(
                                     user, token_mint, amount, cpi_ok))
           /\ \A user \in Signers :
               /\ \A target \in Targets :
                   /\ PlusOneMod(delegate_platform_authority_ix(user, target))
                   /\ PlusOneMod(delegate_trading_authority_ix(user, target))
               /\ PlusOneMod(revoke_platform_authority_ix(user))
               /\ PlusOneMod(revoke_trading_authority_ix(user))
               /\ PlusOneMod(pause_escrow_ix(user))
               /\ PlusOneMod(unpause_escrow_ix(user))
               /\ \A max_lifetime_seconds \in LifetimeInputs :
                   PlusOneMod(set_max_lifetime_ix(user, max_lifetime_seconds)))

\* action_nonce is at the maximum and the owner's pause_escrow returns Ok
\* with action_nonce 0.
C9_Witness ==
    /\ live
    /\ escrow.action_nonce = U64_MAX
    /\ hist.mutations = U64_MAX
    /\ pause_escrow_ix(escrow.user).err = "Ok"
    /\ NonceAfter(pause_escrow_ix(escrow.user)) = 0

(***************************************************************************)
(* C10.  Flags and authorities agree.  In every reachable state:           *)
(* is_platform_active() iff platform_authority is not the default key;     *)
(* is_trading_active() iff trading_authority is not the default key;       *)
(* has_active_authority() iff at least one of the two is not the default   *)
(* key; and each of set_platform_active, set_trading_active and            *)
(* set_paused, applied to the record with either argument, gives its own   *)
(* bit the argument's value and leaves the other two bits as they were.    *)
(***************************************************************************)
C10_FlagsAgree ==
    /\ is_platform_active(escrow)
           <=> escrow.platform_authority # DefaultPubkey
    /\ is_trading_active(escrow)
           <=> escrow.trading_authority # DefaultPubkey
    /\ has_active_authority(escrow)
           <=> \/ escrow.platform_authority # DefaultPubkey
               \/ escrow.trading_authority # DefaultPubkey
    /\ \A b \in BOOLEAN :
        /\ LET e == set_platform_active(escrow, b)
           IN  /\ is_platform_active(e) = b
               /\ is_trading_active(e) = is_trading_active(escrow)
               /\ is_paused(e) = is_paused(escrow)
        /\ LET e == set_trading_active(escrow, b)
           IN  /\ is_trading_active(e) = b
               /\ is_platform_active(e) = is_platform_active(escrow)
               /\ is_paused(e) = is_paused(escrow)
        /\ LET e == set_paused(escrow, b, now)
           IN  /\ is_paused(e) = b
               /\ is_platform_active(e) = is_platform_active(escrow)
               /\ is_trading_active(e) = is_trading_active(escrow)

\* Both authorities are set and the record is paused: all three bits are
\* set.
C10_Witness ==
    /\ live
    /\ escrow.platform_authority # DefaultPubkey
    /\ escrow.trading_authority # DefaultPubkey
    /\ is_platform_active(escrow)
    /\ is_trading_active(escrow)
    /\ is_paused(escrow)

\* A delegation to a slot that is set, or of the default key, is refused.
C11_DelegateRefused ==
    live =>
        \A user \in Signers, target \in Targets :
            LET p == delegate_platform_authority_ix(user, target)
                t == delegate_trading_authority_ix(user, target)
                owner_unpaused == user = escrow.user /\ ~is_paused(escrow)
            IN  /\ escrow.platform_authority # DefaultPubkey =>
                    /\ Refused(p)
                    /\ (owner_unpaused /\ target # DefaultPubkey)
                           => p.err = "PlatformAuthorityAlreadySet"
                /\ escrow.trading_authority # DefaultPubkey =>
                    /\ Refused(t)
                    /\ (owner_unpaused /\ target # DefaultPubkey)
                           => t.err = "TradingAuthorityAlreadySet"
                /\ target = DefaultPubkey =>
                    /\ Refused(p)
                    /\ Refused(t)
                    /\ owner_unpaused => /\ p.err = "InvalidAuthority"
                                         /\ t.err = "InvalidAuthority"

\* A step that changes an authority field sets an empty slot, and then a
\* delegation was committed at this time, or empties a set one, and then a
\* revocation was committed.
C11_StepSetsOrClears ==
    /\ escrow'.platform_authority # escrow.platform_authority =>
        \/ /\ escrow.platform_authority = DefaultPubkey
           /\ hist'.platform_since = now
        \/ /\ escrow'.platform_authority = DefaultPubkey
           /\ hist'.platform_since = Never
    /\ escrow'.trading_authority # escrow.trading_authority =>
        \/ /\ escrow.trading_authority = DefaultPubkey
           /\ hist'.trading_since = now
        \/ /\ escrow'.trading_authority = DefaultPubkey
           /\ hist'.trading_since = Never

(***************************************************************************)
(* C11.  An authority slot is not overwritten.  In every reachable state   *)
(* of a live record: delegate_platform_authority while platform_authority  *)
(* is set fails, whoever signs it and whatever key it names, and does and  *)
(* changes nothing, and called by the owner on the unpaused record with a  *)
(* key other than the default key it fails with                            *)
(* PlatformAuthorityAlreadySet; a delegation of the default key fails and  *)
(* does nothing, with InvalidAuthority when the owner calls it on the      *)
(* unpaused record; likewise delegate_trading_authority and                *)
(* TradingAuthorityAlreadySet.  And every step of the program that changes *)
(* platform_authority (trading_authority) changes it from the default key  *)
(* to a set key, by a delegation, or from a set key to the default key, by *)
(* a revocation, never from one set key to another.                        *)
(***************************************************************************)
C11_NoOverwrite == [](C11_DelegateRefused) /\ [][C11_StepSetsOrClears]_vars

\* The platform authority is "A" on an unpaused record, and the owner's
\* delegation to "B" is refused with PlatformAuthorityAlreadySet.
C11_Witness ==
    /\ live
    /\ ~is_paused(escrow)
    /\ escrow.platform_authority = "A"
    /\ delegate_platform_authority_ix(escrow.user, "B").err
           = "PlatformAuthorityAlreadySet"

C13_UnpauseCooldown ==
    hist.paused_since # Never =>
        /\ live
        /\ escrow.last_paused_at = hist.paused_since
        /\ now >= hist.paused_since
        /\ now - hist.paused_since < UNPAUSE_COOLDOWN =>
            /\ \A user \in Signers : Refused(unpause_escrow_ix(user))
            /\ unpause_escrow_ix(escrow.user).err = "CooldownNotElapsed"
        /\ now - hist.paused_since >= UNPAUSE_COOLDOWN =>
            LET r == unpause_escrow_ix(escrow.user)
            IN  /\ r.err = "Ok"
                /\ ~is_paused(After(r).escrow)

\* The record was paused one second less than UNPAUSE_COOLDOWN ago and is
\* still paused, and the owner's unpause_escrow is refused with
\* CooldownNotElapsed.
C13_Witness ==
    /\ live
    /\ is_paused(escrow)
    /\ hist.paused_since # Never
    /\ now - hist.paused_since = UNPAUSE_COOLDOWN - 1
    /\ unpause_escrow_ix(escrow.user).err = "CooldownNotElapsed"

(***************************************************************************)
(* C14.  unpause_escrow requires the paused state, as claimed: in every    *)
(* reachable state of a live record, unpause_escrow returns Ok, whoever    *)
(* signs it, only if the paused flag is set, and called on a record whose  *)
(* paused flag is not set (never paused, or unpaused again) it fails and   *)
(* leaves flags and action_nonce as they were.                             *)
(***************************************************************************)
C14_UnpauseNeedsPaused ==
    live =>
        \A user \in Signers :
            LET r == unpause_escrow_ix(user)
            IN  /\ r.err = "Ok" => is_paused(escrow)
                /\ ~is_paused(escrow) =>
                       /\ r.err # "Ok"
                       /\ After(r).escrow.flags = escrow.flags
                       /\ NonceAfter(r) = escrow.action_nonce

(***************************************************************************)
(* C15.  Expiry gates deposit and delegation, and nothing else.  In every  *)
(* reachable state of a live record with is_expired(now) true:             *)
(* deposit_token, delegate_platform_authority and                          *)
(* delegate_trading_authority fail, whoever signs them and whatever their  *)
(* arguments, before they have done anything, and change nothing; called   *)
(* by the owner on the unpaused record they fail with EscrowExpired (the   *)
(* deposit with amount > 0 and the record's mint, the delegation with a    *)
(* key other than the default key to an empty slot); and each of           *)
(* withdraw_token, withdraw_subscription_fee, withdraw_for_trade,          *)
(* emergency_withdraw, the two revocations, pause_escrow, unpause_escrow,  *)
(* set_max_lifetime and close_escrow, for every signer, every argument and *)
(* either answer of the token program, has the outcome (result, record     *)
(* written, tokens moved, events, closure) it has on the record that       *)
(* differs only in having no lifetime limit, and so is not expired.        *)
(***************************************************************************)
C15_ExpiryGates ==
    []((live /\ is_expired(escrow, now)) =>
           LET e0 == Unlimited(escrow)
           IN  /\ ~is_expired(e0, now)
               /\ \A user \in Signers :
                   /\ \A token_mint \in Mints, cpi_ok \in BOOLEAN :
                     \A amount \in AmountsFor(token_mint = escrow.token_mint) :
                       /\ Refused(deposit_token_ix(user, token_mint, amount,
                                                   cpi_ok))
                       /\ SameOutcome(
                              withdraw_token_ix(user, token_mint, amount, cpi_ok),
                              Outcome(WithdrawToken(live, e0, user, token_mint),
                                      withdraw_token(e0, vault, amount, cpi_ok)))
                       /\ SameOutcome(
                              emergency_withdraw_ix(user, token_mint, amount,
                                                    cpi_ok),
                              Outcome(EmergencyWithdraw(live, e0, user,
                                                        token_mint),
                                      emergency_withdraw(e0, vault, amount,
                                                         cpi_ok)))
                       /\ SameOutcome(
                              withdraw_subscription_fee_ix(user, token_mint,
                                                           amount, cpi_ok),
                              Outcome(WithdrawSubscriptionFee(live, e0,
                                                              token_mint),
                                      withdraw_subscription_fee(
                                          e0, vault, now, user, amount, cpi_ok)))
                       /\ SameOutcome(
                              withdraw_for_trade_ix(user, token_mint, amount,
                                                    cpi_ok),
                              Outcome(WithdrawForTrade(live, e0, token_mint),
                                      withdraw_for_trade(e0, vault, now, user,
                                                         amount, cpi_ok)))
                   /\ \A target \in Targets :
                       /\ Refused(delegate_platform_authority_ix(user, target))
                       /\ Refused(delegate_trading_authority_ix(user, target))
                   /\ SameOutcome(revoke_platform_authority_ix(user),
                                  Outcome(RevokePlatformAuthority(live, e0, user),
                                          revoke_platform_authority(e0)))
                   /\ SameOutcome(revoke_trading_authority_ix(user),
                                  Outcome(RevokeTradingAuthority(live, e0, user),
                                          revoke_trading_authority(e0)))
                   /\ SameOutcome(pause_escrow_ix(user),
                                  Outcome(PauseEscrow(live, e0, user),
                                          pause_escrow(e0, now)))
                   /\ SameOutcome(unpause_escrow_ix(user),
                                  Outcome(UnpauseEscrow(live, e0, user),
                                          unpause_escrow(e0, now)))
                   /\ \A max_lifetime_seconds \in LifetimeInputs :
                       SameOutcome(
                           set_max_lifetime_ix(user, max_lifetime_seconds),
                           Outcome(SetMaxLifetime(live, e0, user),
                                   set_max_lifetime(e0, max_lifetime_seconds)))
                   /\ \A lamports \in LamportsInputs, cpi_ok \in BOOLEAN :
                       SameOutcome(
                           close_escrow_ix(user, lamports, cpi_ok),
                           Outcome(CloseEscrow(live, e0, user),
                                   close_escrow(e0, vault, lamports, cpi_ok)))
               /\ ~is_paused(escrow) =>
                   /\ \A amount \in 1..U64_MAX :
                       deposit_token_ix(escrow.user, escrow.token_mint, amount,
                                        TRUE).err = "EscrowExpired"
                   /\ \A target \in Targets \ {DefaultPubkey} :
                       /\ escrow.platform_authority = DefaultPubkey =>
                              delegate_platform_authority_ix(escrow.user,
                                                             target).err
                                  = "EscrowExpired"
                       /\ escrow.trading_authority = DefaultPubkey =>
                              delegate_trading_authority_ix(escrow.user,
                                                            target).err
                                  = "EscrowExpired")

\* The record is expired, unpaused, holds tokens and has no authority set:
\* the owner's deposit and delegation are refused with EscrowExpired, and
\* the owner's withdrawal of all the tokens returns Ok.
C15_Witness ==
    /\ live
    /\ is_expired(escrow, now)
    /\ ~is_paused(escrow)
    /\ NoAuthoritySet
    /\ vault > 0
    /\ deposit_token_ix(escrow.user, Mint, 1, TRUE).err = "EscrowExpired"
    /\ delegate_trading_authority_ix(escrow.user, "B").err = "EscrowExpired"
    /\ withdraw_token_ix(escrow.user, Mint, vault, TRUE).err = "Ok"

(***************************************************************************)
(* C16.  Event emission, as claimed: in every reachable state, for every   *)
(* instruction, every signer and every argument, an instruction that       *)
(* returns Ok leaves exactly one event in the log, the event of its type   *)
(* (EscrowInitialized, TokenDeposit, PlatformAuthorityDelegated,           *)
(* TradingAuthorityDelegated, PlatformAuthorityRevoked,                    *)
(* TradingAuthorityRevoked, SubscriptionFeeWithdraw, TradeWithdraw,        *)
(* TokenWithdraw, EmergencyWithdrawal, EscrowPaused, EscrowUnpaused,       *)
(* EscrowClosed; set_max_lifetime, which has no event type of its own,     *)
(* exactly one event whatever its type), and one that fails leaves none.   *)
(***************************************************************************)
C16_OneEventPerSuccess ==
    /\ \A user \in InitSigners, decimals \in DecimalsInputs,
          max_balance \in MaxBalanceInputs :
        LogsOne(initialize_escrow_ix(user, decimals, max_balance),
                "emit EscrowInitialized")
    /\ \A user \in Signers :
        /\ \A token_mint \in Mints, cpi_ok \in BOOLEAN :
            /\ \A amount \in AmountsFor(user = escrow.user
                                        /\ token_mint = escrow.token_mint) :
                /\ LogsOne(deposit_token_ix(user, token_mint, amount,
                                            cpi_ok),
                           "emit TokenDeposit")
                /\ LogsOne(withdraw_token_ix(user, token_mint, amount,
                                             cpi_ok),
                           "emit TokenWithdraw")
                /\ LogsOne(emergency_withdraw_ix(user, token_mint, amount,
                                                 cpi_ok),
                           "emit EmergencyWithdrawal")
            /\ \A amount \in AmountsFor(token_mint = escrow.token_mint) :
                /\ LogsOne(withdraw_subscription_fee_ix(user, token_mint,
                                                        amount, cpi_ok),
                           "emit SubscriptionFeeWithdraw")
                /\ LogsOne(withdraw_for_trade_ix(user, token_mint, amount,
                                                 cpi_ok),
                           "emit TradeWithdraw")
        /\ \A target \in Targets :
            /\ LogsOne(delegate_platform_authority_ix(user, target),
                       "emit PlatformAuthorityDelegated")
            /\ LogsOne(delegate_trading_authority_ix(user, target),
                       "emit TradingAuthorityDelegated")
        /\ LogsOne(revoke_platform_authority_ix(user),
                   "emit PlatformAuthorityRevoked")
        /\ LogsOne(revoke_trading_authority_ix(user),
                   "emit TradingAuthorityRevoked")
        /\ LogsOne(pause_escrow_ix(user), "emit EscrowPaused")
        /\ LogsOne(unpause_escrow_ix(user), "emit EscrowUnpaused")
        /\ \A lamports \in LamportsInputs, cpi_ok \in BOOLEAN :
            LogsOne(close_escrow_ix(user, lamports, cpi_ok),
                    "emit EscrowClosed")
        /\ \A max_lifetime_seconds \in LifetimeInputs :
            LET r == set_max_lifetime_ix(user, max_lifetime_seconds)
            IN  Len(Logged(r)) = IF r.err = "Ok" THEN 1 ELSE 0

(***************************************************************************)
(* C17.  The round trip.  In every reachable state in which no record      *)
(* exists, at the time now of that state and for a clock advance d of      *)
(* MIN_AUTHORITY_AGE or more: initialize_escrow by the owner,              *)
(* deposit_token(RoundTripDeposit), delegate_trading_authority(T), after d *)
(* seconds withdraw_for_trade(RoundTripHalf) signed by T,                  *)
(* revoke_trading_authority, withdraw_token(RoundTripHalf) and             *)
(* close_escrow, the token program carrying out every call, all return     *)
(* Ok; before the closure the record has total_deposited =                 *)
(* RoundTripDeposit, total_traded = total_withdrawn = RoundTripHalf,       *)
(* total_fees_paid = 0, action_nonce = 5 and the vault holds 0; and the    *)
(* closure closes the accounts.  (RoundTripDeposit and RoundTripHalf stand *)
(* for the 1000 and 500 of the scenario on the scale of the model.)  And   *)
(* in every reachable state whose record and vault are those of the end of *)
(* the round trip, unpaused and with no authority set, the owner's         *)
(* close_escrow returns Ok and leaves no record.                           *)
(***************************************************************************)
C17_RoundTrip ==
    /\ ~live =>
        \A d \in {MIN_AUTHORITY_AGE, MIN_AUTHORITY_AGE + 1} :
            LET run == RoundTrip(now, d)
            IN  /\ \A i \in 1..7 : run.outcomes[i].err = "Ok"
                /\ RoundTripEnd(run.outcomes[6].escrow, run.vault)
                /\ run.outcomes[7].closed
                /\ \A i \in 1..6 : ~run.outcomes[i].closed
    /\ ( /\ live
         /\ RoundTripEnd(escrow, vault)
         /\ ~is_paused(escrow)
         /\ NoAuthoritySet ) =>
            LET r == close_escrow_ix(escrow.user, MIN_RENT_EXEMPT_LAMPORTS,
                                     TRUE)
            IN  r.err = "Ok" /\ ~After(r).live

\* The state of the round trip just before the closure: a record with the
\* default ceiling, never paused, one deposit, half of it drawn by a
\* trading authority that has been revoked since and half withdrawn by the
\* owner, five instructions committed, the vault empty.
C17_Witness ==
    /\ live
    /\ RoundTripEnd(escrow, vault)
    /\ escrow.max_balance = DEFAULT_MAX_BALANCE
    /\ escrow.last_paused_at = 0
    /\ escrow.max_lifetime = 0
    /\ NoAuthoritySet
    /\ hist.mutations = 5
    /\ close_escrow_ix(escrow.user, MIN_RENT_EXEMPT_LAMPORTS, TRUE).err = "Ok"

(***************************************************************************)
(* C18.  initialize_escrow.  In every reachable state in which no record   *)
(* exists, for every signer, mint, number of decimals, bump and            *)
(* max_balance: if max_balance > MAX_ALLOWED_BALANCE the call fails with   *)
(* MaxBalanceExceeded, otherwise if the decimals are outside               *)
(* MIN_TOKEN_DECIMALS..MAX_TOKEN_DECIMALS it fails with                    *)
(* InvalidTokenDecimals, in both cases having written nothing and creating *)
(* nothing; otherwise it returns Ok and creates the record with user the   *)
(* signer, the given mint and bump, created_at = now, max_balance the      *)
(* argument or DEFAULT_MAX_BALANCE when the argument is 0, and every other *)
(* field as in the zeroed record: both authorities the default key,        *)
(* flags, the three timestamps, action_nonce, the four accumulators and    *)
(* max_lifetime 0; the sub-account holds 0.                                *)
(***************************************************************************)
C18_Initialize ==
    ~live =>
        \A user \in Signers, token_mint \in Mints,
           decimals \in (MIN_TOKEN_DECIMALS - 1)..(MAX_TOKEN_DECIMALS + 1),
           bump \in {0, Bump}, max_balance \in U64 :
            LET r == Outcome(InitializeEscrow(live),
                             initialize_escrow(user, token_mint, decimals,
                                               bump, max_balance, now))
                in_range == /\ decimals >= MIN_TOKEN_DECIMALS
                            /\ decimals <= MAX_TOKEN_DECIMALS
            IN  IF max_balance > MAX_ALLOWED_BALANCE
                THEN r.err = "MaxBalanceExceeded" /\ Refused(r)
                ELSE IF ~in_range
                THEN r.err = "InvalidTokenDecimals" /\ Refused(r)
                ELSE /\ r.err = "Ok"
                     /\ After(r) =
                            [live |-> TRUE,
                             escrow |->
                                 [NoEscrow EXCEPT
                                     !.user = user,
                                     !.token_mint = token_mint,
                                     !.bump = bump,
                                     !.created_at = now,
                                     !.max_balance =
                                         IF max_balance = 0
                                         THEN DEFAULT_MAX_BALANCE
                                         ELSE max_balance],
                             vault |-> 0]

\* The clock has advanced and no record exists: the owner's
\* initialize_escrow with max_balance 0 creates one with the default
\* ceiling and created_at = now, and the one with max_balance over
\* MAX_ALLOWED_BALANCE is refused.
C18_Witness ==
    /\ ~live
    /\ now > StartTime
    /\ LET r == initialize_escrow_ix(Owner, MIN_TOKEN_DECIMALS, 0)
       IN  /\ r.err = "Ok"
           /\ After(r).live
           /\ After(r).escrow.max_balance = DEFAULT_MAX_BALANCE
           /\ After(r).escrow.created_at = now
    /\ initialize_escrow_ix(Owner, MIN_TOKEN_DECIMALS,
                            MAX_ALLOWED_BALANCE + 1).err
           = "MaxBalanceExceeded"

(***************************************************************************)
(* C19.  The fee cap per period, as claimed: in every reachable state the  *)
(* sum of the amounts of the withdraw_subscription_fee calls committed at  *)
(* the current time (hist.fees_now: a window of no length, shorter than    *)
(* any fee period) is at most MAX_SUBSCRIPTION_FEE.                        *)
(***************************************************************************)
C19_FeeCapPerPeriod ==
    hist.fees_now <= MAX_SUBSCRIPTION_FEE

\* A step from a record to a record does not decrease action_nonce.
C20_StepNotLess ==
    (live /\ live') => escrow'.action_nonce >= escrow.action_nonce

(***************************************************************************)
(* C20.  action_nonce never decreases, as claimed: no step of the program  *)
(* on a record that exists before and after it leaves action_nonce lower   *)
(* than it was, the steps taken with action_nonce at U64_MAX, the maximum  *)
(* of its range, included.                                                 *)
(***************************************************************************)
C20_NonceNeverDecreases == [][C20_StepNotLess]_vars

\* A step from a record to a record decreases action_nonce only from the
\* maximum to 0.
C20_StepNotLessOrWraps ==
    (live /\ live') =>
        \/ escrow'.action_nonce >= escrow.action_nonce
        \/ /\ escrow.action_nonce = U64_MAX
           /\ escrow'.action_nonce = 0

(***************************************************************************)
(* C20, amended.  No step of the program on a record that exists before    *)
(* and after it leaves action_nonce lower than it was, except a step taken *)
(* with action_nonce at U64_MAX, the maximum of its range of width w,      *)
(* which leaves it at U64_MAX (the instruction failed) or at 0 (it         *)
(* returned Ok and the increment wrapped).                                 *)
(***************************************************************************)
C20_NonceDecreasesOnlyByWrap == [][C20_StepNotLessOrWraps]_vars

\* action_nonce is at the maximum on an unpaused record with room under
\* the ceiling, and the owner's deposit returns Ok and leaves action_nonce
\* at 0, lower than it was.
C20_Witness ==
    /\ live
    /\ escrow.action_nonce = U64_MAX
    /\ LET r == deposit_token_ix(escrow.user, Mint, DEFAULT_MAX_BALANCE,
                                 TRUE)
       IN  /\ r.err = "Ok"
           /\ NonceAfter(r) = 0
           /\ NonceAfter(r) < escrow.action_nonce

\* The owner's revocation of a slot that is not set, on an unpaused record:
\* r is its outcome, mine the three fields of the slot, nonce the value
\* action_nonce is claimed to take.
HarmlessRevoke(r, authority, active, activated_at, nonce) ==
    /\ r.err = "Ok"
    /\ After(r).live
    /\ authority = DefaultPubkey
    /\ ~active
    /\ activated_at = 0
    /\ After(r).escrow = [escrow EXCEPT !.action_nonce = nonce]
    /\ After(r).vault = vault

(***************************************************************************)
(* C21.  Revoking an authority that is not set, as claimed: in every       *)
(* reachable state of a live, unpaused record, revoke_platform_authority   *)
(* called by the owner while platform_authority is the default key returns *)
(* Ok, leaves platform_authority the default key, the platform flag clear  *)
(* and platform_activated_at 0, and leaves every other field of the record *)
(* and the vault as they were, except action_nonce, which is one more than *)
(* it was; likewise revoke_trading_authority and the trading slot.         *)
(***************************************************************************)
C21_RevokeUnsetPlusOne ==
    (live /\ ~is_paused(escrow)) =>
        /\ escrow.platform_authority = DefaultPubkey =>
            LET r == revoke_platform_authority_ix(escrow.user)
            IN  HarmlessRevoke(r, After(r).escrow.platform_authority,
                               is_platform_active(After(r).escrow),
                               After(r).escrow.platform_activated_at,
                               escrow.action_nonce + 1)
        /\ escrow.trading_authority = DefaultPubkey =>
            LET r == revoke_trading_authority_ix(escrow.user)
            IN  HarmlessRevoke(r, After(r).escrow.trading_authority,
                               is_trading_active(After(r).escrow),
                               After(r).escrow.trading_activated_at,
                               escrow.action_nonce + 1)

(***************************************************************************)
(* C21, amended.  In every reachable state of a live, unpaused record,     *)
(* revoke_platform_authority called by the owner while platform_authority  *)
(* is the default key returns Ok, leaves platform_authority the default    *)
(* key, the platform flag clear and platform_activated_at 0, and leaves    *)
(* every other field of the record and the vault as they were, except      *)
(* action_nonce, which is one more than it was, or 0 when it was U64_MAX;  *)
(* likewise revoke_trading_authority and the trading slot.                 *)
(***************************************************************************)
C21_RevokeUnsetHarmless ==
    (live /\ ~is_paused(escrow)) =>
        /\ escrow.platform_authority = DefaultPubkey =>
            LET r == revoke_platform_authority_ix(escrow.user)
            IN  HarmlessRevoke(r, After(r).escrow.platform_authority,
                               is_platform_active(After(r).escrow),
                               After(r).escrow.platform_activated_at,
                               (escrow.action_nonce + 1) % (U64_MAX + 1))
        /\ escrow.trading_authority = DefaultPubkey =>
            LET r == revoke_trading_authority_ix(escrow.user)
            IN  HarmlessRevoke(r, After(r).escrow.trading_authority,
                               is_trading_active(After(r).escrow),
                               After(r).escrow.trading_activated_at,
                               (escrow.action_nonce + 1) % (U64_MAX + 1))

\* Tokens are held, the trading authority is set and the record is not
\* paused, the platform authority is not set, and the owner's
\* revoke_platform_authority returns Ok and changes action_nonce only.
C21_Witness ==
    /\ live
    /\ ~is_paused(escrow)
    /\ vault > 0
    /\ escrow.platform_authority = DefaultPubkey
    /\ escrow.trading_authority # DefaultPubkey
    /\ escrow.action_nonce < U64_MAX
    /\ LET r == revoke_platform_authority_ix(escrow.user)
       IN  /\ r.err = "Ok"
           /\ After(r).escrow =
                  [escrow EXCEPT !.action_nonce = escrow.action_nonce + 1]
           /\ After(r).vault = vault

\* The four accumulators of a record.
Accumulators(e) ==
    [total_deposited |-> e.total_deposited,
     total_withdrawn |-> e.total_withdrawn,
     total_fees_paid |-> e.total_fees_paid,
     total_traded |-> e.total_traded]

\* The record the instruction leaves: the handler's when it returned Ok
\* (for close_escrow the record that is then destroyed), the one before
\* when it failed.
Left(r) == IF r.err = "Ok" THEN r.escrow ELSE escrow

\* The instruction leaves the four accumulators as they were.
NoAccumulatorChanged(r) == Accumulators(Left(r)) = Accumulators(escrow)

\* The instruction, called with amount, leaves the accumulators as they
\* were when it fails; when it returns Ok it has moved exactly amount, in
\* the direction sign, and has added it to the accumulator own and to no
\* other.
OwnAccumulatorOnly(r, own, amount, sign) ==
    IF r.err # "Ok"
    THEN NoAccumulatorChanged(r)
    ELSE /\ r.moved = sign * amount
         /\ Accumulators(Left(r)) =
                [Accumulators(escrow) EXCEPT ![own] = @ + amount]

\* What each instruction does to the accumulators, whoever signs it and
\* whatever its arguments.
C22_OwnAccumulator ==
    /\ \A user \in Signers, decimals \in DecimalsInputs,
          max_balance \in MaxBalanceInputs :
            NoAccumulatorChanged(
                initialize_escrow_ix(user, decimals, max_balance))
    /\ live =>
        /\ \A user \in Signers :
            /\ \A target \in Targets :
                /\ NoAccumulatorChanged(
                       delegate_platform_authority_ix(user, target))
                /\ NoAccumulatorChanged(
                       delegate_trading_authority_ix(user, target))
            /\ NoAccumulatorChanged(revoke_platform_authority_ix(user))
            /\ NoAccumulatorChanged(revoke_trading_authority_ix(user))
            /\ NoAccumulatorChanged(pause_escrow_ix(user))
            /\ NoAccumulatorChanged(unpause_escrow_ix(user))
            /\ \A max_lifetime_seconds \in LifetimeInputs :
                NoAccumulatorChanged(
                    set_max_lifetime_ix(user, max_lifetime_seconds))
            /\ \A lamports \in LamportsInputs, cpi_ok \in BOOLEAN :
                NoAccumulatorChanged(close_escrow_ix(user, lamports, cpi_ok))
        /\ \A user \in Signers, token_mint \in Mints, cpi_ok \in BOOLEAN :
            \A amount \in AmountsFor(token_mint = escrow.token_mint) :
                /\ OwnAccumulatorOnly(
                       withdraw_subscription_fee_ix(user, token_mint,
                                                    amount, cpi_ok),
                       "total_fees_paid", amount, 0 - 1)
                /\ OwnAccumulatorOnly(
                       withdraw_for_trade_ix(user, token_mint, amount,
                                             cpi_ok),
                       "total_traded", amount, 0 - 1)
        /\ \A user \in Signers, token_mint \in Mints, cpi_ok \in BOOLEAN :
            \A amount \in AmountsFor(user = escrow.user
                                     /\ token_mint = escrow.token_mint) :
                /\ OwnAccumulatorOnly(
                       deposit_token_ix(user, token_mint, amount, cpi_ok),
                       "total_deposited", amount, 1)
                /\ OwnAccumulatorOnly(
                       withdraw_token_ix(user, token_mint, amount, cpi_ok),
                       "total_withdrawn", amount, 0 - 1)
                /\ OwnAccumulatorOnly(
                       emergency_withdraw_ix(user, token_mint, amount,
                                             cpi_ok),
                       "total_withdrawn", amount, 0 - 1)

\* A step from a record to a record lowers none of the accumulators.
C22_StepNotLess ==
    (live /\ live') =>
        /\ escrow'.total_deposited >= escrow.total_deposited
        /\ escrow'.total_withdrawn >= escrow.total_withdrawn
        /\ escrow'.total_fees_paid >= escrow.total_fees_paid
        /\ escrow'.total_traded >= escrow.total_traded

(***************************************************************************)
(* C22.  The accumulators.  No step of the program on a record that exists *)
(* before and after it lowers total_deposited, total_withdrawn,            *)
(* total_fees_paid or total_traded.  And in every reachable state, whoever *)
(* signs and whatever the arguments: deposit_token changes only            *)
(* total_deposited, withdraw_token and emergency_withdraw only             *)
(* total_withdrawn, withdraw_subscription_fee only total_fees_paid,        *)
(* withdraw_for_trade only total_traded, each adding exactly the amount    *)
(* the token program moved when it returns Ok and nothing when it fails;   *)
(* initialize_escrow (which creates them at 0), both delegations, both     *)
(* revocations, pause_escrow, unpause_escrow, set_max_lifetime and         *)
(* close_escrow (up to the destruction of the record) leave all four as    *)
(* they were.                                                              *)
(***************************************************************************)
C22_Accumulators == [](C22_OwnAccumulator) /\ [][C22_StepNotLess]_vars

\* All four accumulators have grown, tokens are held, and the mature
\* platform authority's fee withdrawal returns Ok and adds its amount to
\* total_fees_paid only.
C22_Witness ==
    /\ live
    /\ escrow.total_deposited > 0
    /\ escrow.total_fees_paid > 0
    /\ escrow.total_traded > 0
    /\ LET r == withdraw_subscription_fee_ix(escrow.platform_authority,
                                             Mint, 1, TRUE)
       IN  /\ r.err = "Ok"
           /\ Accumulators(After(r).escrow) =
                  [Accumulators(escrow) EXCEPT
                       !.total_fees_paid = escrow.total_fees_paid + 1]

(***************************************************************************)
(* C23.  The maturity predicates.  Whatever the record and the timestamp   *)
(* now they are called with, is_platform_authority_mature(now) returns     *)
(* FALSE when platform_activated_at = 0 and otherwise returns              *)
(* now - platform_activated_at >= MIN_AUTHORITY_AGE, the age               *)
(* MIN_AUTHORITY_AGE itself included, and returns the same for every       *)
(* record with the same platform_activated_at, paused or not and whatever  *)
(* its other timestamps; likewise is_trading_authority_mature(now) and     *)
(* trading_activated_at.                                                   *)
(***************************************************************************)
C23_Maturity ==
    /\ answer.fn = "is_platform_authority_mature" =>
        /\ answer.value =
               IF escrow.platform_activated_at = 0
               THEN FALSE
               ELSE now - escrow.platform_activated_at >= MIN_AUTHORITY_AGE
        /\ \A e \in TestRecords, paused \in BOOLEAN, t \in TestTimes :
               e.platform_activated_at = escrow.platform_activated_at =>
                   is_platform_authority_mature(set_paused(e, paused, t),
                                                now) = answer.value
    /\ answer.fn = "is_trading_authority_mature" =>
        /\ answer.value =
               IF escrow.trading_activated_at = 0
               THEN FALSE
               ELSE now - escrow.trading_activated_at >= MIN_AUTHORITY_AGE
        /\ \A e \in TestRecords, paused \in BOOLEAN, t \in TestTimes :
               e.trading_activated_at = escrow.trading_activated_at =>
                   is_trading_authority_mature(set_paused(e, paused, t),
                                               now) = answer.value

\* The trading authority was activated at 1000 and the platform authority
\* never, and is_trading_authority_mature(1300) has returned TRUE.
C23_Witness ==
    /\ escrow.trading_activated_at = 1000
    /\ escrow.platform_activated_at = 0
    /\ now = 1000 + MIN_AUTHORITY_AGE
    /\ answer = [fn |-> "is_trading_authority_mature", value |-> TRUE]

(***************************************************************************)
(* C24.  The expiry predicate.  Whatever the record, with                  *)
(* max_lifetime >= 0, and the timestamp now it is called with,             *)
(* is_expired(now) returns FALSE when max_lifetime = 0 and otherwise       *)
(* returns now - created_at > max_lifetime, the age max_lifetime itself    *)
(* excluded: created at 1000 with max_lifetime = 100, the record is not    *)
(* expired at 1100 and is expired at 1101.                                 *)
(***************************************************************************)
C24_Expiry ==
    /\ escrow.max_lifetime >= 0
    /\ answer.fn = "is_expired" =>
        /\ answer.value =
               IF escrow.max_lifetime = 0
               THEN FALSE
               ELSE now - escrow.created_at > escrow.max_lifetime
        /\ (escrow.created_at = 1000 /\ escrow.max_lifetime = 100) =>
            /\ now = 1100 => answer.value = FALSE
            /\ now = 1101 => answer.value = TRUE

\* The record was created at 1000 with max_lifetime = 100, and
\* is_expired(1100) has returned FALSE.
C24_Witness ==
    /\ escrow.created_at = 1000
    /\ escrow.max_lifetime = 100
    /\ now = 1100
    /\ answer = [fn |-> "is_expired", value |-> FALSE]

(***************************************************************************)
(* C25.  The cooldown predicate.  Whatever the record and the timestamp    *)
(* now it is called with, can_unpause(now) returns TRUE when               *)
(* last_paused_at = 0 and otherwise returns                                *)
(* now - last_paused_at >= UNPAUSE_COOLDOWN, the age UNPAUSE_COOLDOWN      *)
(* itself included: after set_paused(true, 1000) it returns FALSE at 1000  *)
(* and at 1299 and TRUE at 1300.                                           *)
(***************************************************************************)
C25_Cooldown ==
    /\ answer.fn = "can_unpause" =>
        answer.value =
            IF escrow.last_paused_at = 0
            THEN TRUE
            ELSE now - escrow.last_paused_at >= UNPAUSE_COOLDOWN
    /\ LET e == set_paused(escrow, TRUE, 1000)
       IN  /\ ~can_unpause(e, 1000)
           /\ ~can_unpause(e, 1299)
           /\ can_unpause(e, 1300)

\* The record is paused since set_paused(true, 1000), and can_unpause(1300)
\* has returned TRUE.
C25_Witness ==
    /\ is_paused(escrow)
    /\ escrow.last_paused_at = 1000
    /\ now = 1000 + UNPAUSE_COOLDOWN
    /\ answer = [fn |-> "can_unpause", value |-> TRUE]

\* In the trace, every event is emitted after every call of the token
\* program.
EmitsAfterCpi(trace) ==
    \A i \in DOMAIN trace, j \in DOMAIN trace :
        (trace[i] \in EmitSteps /\ trace[j] \in CpiSteps) => j < i

\* The instruction returned Ok only with its events emitted after its
\* token-program call.
OkEmitsAfterCpi(r) == r.err = "Ok" => EmitsAfterCpi(r.trace)

(***************************************************************************)
(* C26.  The order of event and interaction, as claimed: in every          *)
(* reachable state, whoever signs and whatever the arguments, a            *)
(* deposit_token, withdraw_subscription_fee, withdraw_for_trade,           *)
(* withdraw_token or close_escrow that returns Ok has emitted its event    *)
(* after it called the token program (token::transfer,                     *)
(* token::close_account), not before.                                      *)
(***************************************************************************)
C26_EventAfterInteraction ==
    live =>
        \A user \in Signers :
            /\ \A amount \in Amounts :
                /\ OkEmitsAfterCpi(
                       deposit_token_ix(user, Mint, amount, TRUE))
                /\ OkEmitsAfterCpi(
                       withdraw_subscription_fee_ix(user, Mint, amount,
                                                    TRUE))
                /\ OkEmitsAfterCpi(
                       withdraw_for_trade_ix(user, Mint, amount, TRUE))
                /\ OkEmitsAfterCpi(
                       withdraw_token_ix(user, Mint, amount, TRUE))
            /\ \A lamports \in LamportsInputs :
                OkEmitsAfterCpi(close_escrow_ix(user, lamports, TRUE))

\* The writes and the token-program calls of a trace, in order.
Writes(trace) == SelectSeq(trace, LAMBDA s : s \in WriteSteps)
Cpis(trace) == SelectSeq(trace, LAMBDA s : s \in CpiSteps)

\* In the trace, every write comes before every call of the token program.
WritesBeforeCpi(trace) ==
    \A i \in DOMAIN trace, j \in DOMAIN trace :
        (trace[i] \in WriteSteps /\ trace[j] \in CpiSteps) => i < j

\* The record with amount added to the accumulator own and action_nonce
\* incremented.
Staged(e, own, amount) ==
    [e EXCEPT ![own] = @ + amount,
              !.action_nonce = (@ + 1) % (U64_MAX + 1)]

\* The instruction either failed a check, and then it called nothing and
\* wrote nothing, or passed them all, and then it called the token program
\* once, with cpi, after it had made the writes and left the record e1 in
\* memory, and wrote nothing afterwards.
ChecksEffectsInteractions(r, cpi, writes, e1) ==
    IF r.err \in {"Ok", "TokenProgramError"}
    THEN /\ Cpis(r.trace) = <<cpi>>
         /\ Writes(r.trace) = writes
         /\ WritesBeforeCpi(r.trace)
         /\ r.escrow = e1
    ELSE NothingDone(r)

C27_CallAfterWrites ==
    live =>
        \A user \in Signers, cpi_ok \in BOOLEAN :
            /\ \A token_mint \in Mints :
                \A amount \in AmountsFor(token_mint = escrow.token_mint) :
                    /\ ChecksEffectsInteractions(
                           withdraw_subscription_fee_ix(user, token_mint,
                                                        amount, cpi_ok),
                           "cpi transfer",
                           <<"write total_fees_paid", "write action_nonce">>,
                           Staged(escrow, "total_fees_paid", amount))
                    /\ ChecksEffectsInteractions(
                           withdraw_for_trade_ix(user, token_mint, amount,
                                                 cpi_ok),
                           "cpi transfer",
                           <<"write total_traded", "write action_nonce">>,
                           Staged(escrow, "total_traded", amount))
            /\ \A token_mint \in Mints :
                \A amount \in AmountsFor(user = escrow.user
                                         /\ token_mint = escrow.token_mint) :
                    /\ ChecksEffectsInteractions(
                           deposit_token_ix(user, token_mint, amount,
                                            cpi_ok),
                           "cpi transfer",
                           <<"write total_deposited", "write action_nonce">>,
                           Staged(escrow, "total_deposited", amount))
                    /\ ChecksEffectsInteractions(
                           withdraw_token_ix(user, token_mint, amount,
                                             cpi_ok),
                           "cpi transfer",
                           <<"write total_withdrawn", "write action_nonce">>,
                           Staged(escrow, "total_withdrawn", amount))
                    /\ ChecksEffectsInteractions(
                           emergency_withdraw_ix(user, token_mint, amount,
                                                 cpi_ok),
                           "cpi transfer",
                           <<"write total_withdrawn", "write action_nonce">>,
                           Staged(escrow, "total_withdrawn", amount))
            /\ \A lamports \in LamportsInputs :
                ChecksEffectsInteractions(
                    close_escrow_ix(user, lamports, cpi_ok),
                    "cpi close_account", <<>>, escrow)

(***************************************************************************)
(* C27.  Checks, effects, interactions.  In every reachable state of a     *)
(* live record, whoever signs, whatever the arguments and whatever the     *)
(* token program answers: deposit_token, withdraw_subscription_fee,        *)
(* withdraw_for_trade, withdraw_token, emergency_withdraw and close_escrow *)
(* call the token program only when every check has passed, at most once,  *)
(* and after the writes of the instruction (its accumulator plus the       *)
(* amount, action_nonce incremented; none for close_escrow) have been made *)
(* to the record in memory; they write no field after the call; and an     *)
(* instruction that fails a check calls nothing and writes nothing.        *)
(***************************************************************************)
C27_ChecksEffectsInteractions == [](C27_CallAfterWrites)

\* The record is paused with tokens held and no authority active, and the
\* owner's emergency_withdraw returns Ok having written total_withdrawn and
\* action_nonce and then called token::transfer.
C27_Witness ==
    /\ live
    /\ is_paused(escrow)
    /\ vault > 0
    /\ LET r == emergency_withdraw_ix(escrow.user, Mint, 1, TRUE)
       IN  /\ r.err = "Ok"
           /\ r.trace = <<"write total_withdrawn", "write action_nonce",
                          "cpi transfer">>

\* The outcome of an instruction on the record e: the account validation
\* v, then the handler.
Called(v, e, r) == IF v # "Ok" THEN Fail(v, e, <<>>) ELSE r

\* The values of an accumulator the overflow is tried from: the one the
\* record holds and the two highest of the range.
NearOverflow(a) == {a, U64_MAX - 1, U64_MAX}

\* The amounts that do not fit on top of a.
Overflowing(a) == {amount \in Amounts : a + amount > U64_MAX}

\* r is the outcome of an instruction on the record e with an amount that
\* does not fit, r0 the outcome of the same call where it fits, the token
\* program carrying out the transfer: the instruction fails before it has
\* done anything, and with MathOverflow if it passes every other check.
OverflowRefused(r, r0, e) ==
    /\ r.err # "Ok"
    /\ r.escrow = e
    /\ r.moved = 0
    /\ r.trace = <<>>
    /\ r0.err = "Ok" => r.err = "MathOverflow"

C28_OverflowRefused ==
    live =>
        /\ Accumulators(escrow) \in [DOMAIN Accumulators(escrow) -> U64]
        /\ vault \in U64
        /\ \A user \in Signers :
            /\ \A amount \in Overflowing(vault) :
                LET e0 == [escrow EXCEPT !.total_deposited = 0,
                                         !.max_balance = 0]
                    v == DepositToken(live, escrow, user, Mint)
                IN  OverflowRefused(
                        Called(v, escrow,
                               deposit_token(escrow, vault, now, amount,
                                             TRUE)),
                        Called(v, e0,
                               deposit_token(e0, 0, now, amount, TRUE)),
                        escrow)
            /\ \A a \in NearOverflow(escrow.total_deposited) :
                \A amount \in Overflowing(a) \ Overflowing(vault) :
                    LET e == [escrow EXCEPT !.total_deposited = a]
                        e0 == [escrow EXCEPT !.total_deposited = 0]
                        v == DepositToken(live, e, user, Mint)
                    IN  OverflowRefused(
                            Called(v, e,
                                   deposit_token(e, vault, now, amount,
                                                 TRUE)),
                            Called(v, e0,
                                   deposit_token(e0, vault, now, amount,
                                                 TRUE)),
                            e)
            /\ \A a \in NearOverflow(escrow.total_fees_paid) :
                \A amount \in Overflowing(a) :
                    LET e == [escrow EXCEPT !.total_fees_paid = a]
                        e0 == [escrow EXCEPT !.total_fees_paid = 0]
                        v == WithdrawSubscriptionFee(live, e, Mint)
                    IN  OverflowRefused(
                            Called(v, e,
                                   withdraw_subscription_fee(
                                       e, vault, now, user, amount, TRUE)),
                            Called(v, e0,
                                   withdraw_subscription_fee(
                                       e0, vault, now, user, amount, TRUE)),
                            e)
            /\ \A a \in NearOverflow(escrow.total_traded) :
                \A amount \in Overflowing(a) :
                    LET e == [escrow EXCEPT !.total_traded = a]
                        e0 == [escrow EXCEPT !.total_traded = 0]
                        v == WithdrawForTrade(live, e, Mint)
                    IN  OverflowRefused(
                            Called(v, e,
                                   withdraw_for_trade(
                                       e, vault, now, user, amount, TRUE)),
                            Called(v, e0,
                                   withdraw_for_trade(
                                       e0, vault, now, user, amount, TRUE)),
                            e)
            /\ \A a \in NearOverflow(escrow.total_withdrawn) :
                \A amount \in Overflowing(a) :
                    LET e == [escrow EXCEPT !.total_withdrawn = a]
                        e0 == [escrow EXCEPT !.total_withdrawn = 0]
                        v == WithdrawToken(live, e, user, Mint)
                        w == EmergencyWithdraw(live, e, user, Mint)
                    IN  /\ OverflowRefused(
                               Called(v, e,
                                      withdraw_token(e, vault, amount,
                                                     TRUE)),
                               Called(v, e0,
                                      withdraw_token(e0, vault, amount,
                                                     TRUE)),
                               e)
                        /\ OverflowRefused(
                               Called(w, e,
                                      emergency_withdraw(e, vault, amount,
                                                         TRUE)),
                               Called(w, e0,
                                      emergency_withdraw(e0, vault, amount,
                                                         TRUE)),
                               e)

\* A step from a record to a record raises total_deposited by exactly the
\* tokens that came into the vault, and total_withdrawn, total_fees_paid
\* and total_traded, none of them lowered, together by exactly the tokens
\* that left it.
C28_StepExact ==
    (live /\ live') =>
        /\ escrow'.total_deposited - escrow.total_deposited
               = IF vault' > vault THEN vault' - vault ELSE 0
        /\ escrow'.total_withdrawn >= escrow.total_withdrawn
        /\ escrow'.total_fees_paid >= escrow.total_fees_paid
        /\ escrow'.total_traded >= escrow.total_traded
        /\ (escrow'.total_withdrawn - escrow.total_withdrawn)
               + (escrow'.total_fees_paid - escrow.total_fees_paid)
               + (escrow'.total_traded - escrow.total_traded)
               = IF vault' < vault THEN vault - vault' ELSE 0

(***************************************************************************)
(* C28.  Checked accumulator arithmetic.  In every reachable state of a    *)
(* live record the vault and the four accumulators are within 0..U64_MAX,  *)
(* the range of width w.  For every signer and every amount, on the record *)
(* as it is and on the same record with the accumulator of the instruction *)
(* at U64_MAX - 1 or at U64_MAX: a deposit_token, withdraw_subscription_   *)
(* fee, withdraw_for_trade, withdraw_token or emergency_withdraw whose     *)
(* accumulator plus the amount (for deposit_token also the vault plus the  *)
(* amount) exceeds U64_MAX fails before it has written, emitted or         *)
(* requested anything, leaving the record, action_nonce included, and the  *)
(* vault as they were, and it fails with MathOverflow whenever it passes   *)
(* every other check (the same call returns Ok where the sum fits).  And   *)
(* no step of the program on a record wraps an accumulator: each step      *)
(* raises the accumulators by exactly the tokens it moved.                 *)
(***************************************************************************)
C28_CheckedArithmetic == [](C28_OverflowRefused) /\ [][C28_StepExact]_vars

\* total_deposited is so high that another DEFAULT_MAX_BALANCE does not
\* fit, the vault is empty, and the owner's deposit of DEFAULT_MAX_BALANCE
\* on the unpaused record fails with MathOverflow.
C28_Witness ==
    /\ live
    /\ ~is_paused(escrow)
    /\ vault = 0
    /\ escrow.total_deposited + DEFAULT_MAX_BALANCE > U64_MAX
    /\ LET r == deposit_token_ix(escrow.user, Mint, DEFAULT_MAX_BALANCE, TRUE)
       IN  /\ r.err = "MathOverflow"
           /\ NothingChanged(r)

\* A step from a record to a record that sets the paused flag stamps
\* last_paused_at with the time of the step, and any other step leaves
\* last_paused_at as it was.
C29_StepStampsOnTransition ==
    (live /\ live') =>
        IF ~is_paused(escrow) /\ is_paused(escrow')
        THEN escrow'.last_paused_at = now
        ELSE escrow'.last_paused_at = escrow.last_paused_at

(***************************************************************************)
(* C29.  last_paused_at, as claimed: a step of the program on a record     *)
(* writes last_paused_at only when it changes the paused flag from clear   *)
(* to set, and then to the time of the step; every other step leaves it as *)
(* it was, unpause_escrow and a pause_escrow on a record that is already   *)
(* paused included.  And in every reachable state last_paused_at is not 0  *)
(* only if a pause_escrow has been committed on the record.                *)
(***************************************************************************)
C29_StampedOnlyOnTransition ==
    /\ [](escrow.last_paused_at # 0 => hist.paused_since # Never)
    /\ [][C29_StepStampsOnTransition]_vars

\* What the accumulators say the sub-account holds.
NetFlow(e) ==
    e.total_deposited - e.total_withdrawn - e.total_fees_paid
        - e.total_traded

\* The amounts above the held balance.
Overdrawing == {amount \in Amounts : amount > vault}

(***************************************************************************)
(* C30.  Flow conservation.  The tokens of the sub-account move only by    *)
(* the instructions of the program.  In every reachable state of a live    *)
(* record the vault holds total_deposited - total_withdrawn -              *)
(* total_fees_paid - total_traded, which is not negative; and no           *)
(* withdraw_subscription_fee, withdraw_for_trade, withdraw_token or        *)
(* emergency_withdraw of an amount above the vault returns Ok, whoever     *)
(* signs it and whatever the token program would answer; called by the     *)
(* owner on an unpaused record with no active authority, such a            *)
(* withdraw_token fails with InsufficientBalance.                          *)
(***************************************************************************)
C30_FlowConservation ==
    [](live =>
           /\ vault = NetFlow(escrow)
           /\ vault >= 0
           /\ \A user \in Signers, amount \in Overdrawing, cpi_ok \in BOOLEAN :
               /\ FailsUnchanged(
                      withdraw_subscription_fee_ix(user, Mint, amount, cpi_ok))
               /\ FailsUnchanged(
                      withdraw_for_trade_ix(user, Mint, amount, cpi_ok))
               /\ FailsUnchanged(withdraw_token_ix(user, Mint, amount, cpi_ok))
               /\ FailsUnchanged(
                      emergency_withdraw_ix(user, Mint, amount, cpi_ok))
               /\ (user = escrow.user /\ ~is_paused(escrow)
                       /\ ~has_active_authority(escrow))
                      => withdraw_token_ix(user, Mint, amount, cpi_ok).err
                             = "InsufficientBalance")

\* Tokens were deposited, some were withdrawn for a trade and some by the
\* owner, some are still held, and the owner's withdraw_token of one more
\* than the vault holds fails with InsufficientBalance.
C30_Witness ==
    /\ live
    /\ escrow.total_traded > 0
    /\ escrow.total_withdrawn > 0
    /\ vault > 0
    /\ vault = NetFlow(escrow)
    /\ withdraw_token_ix(escrow.user, Mint, vault + 1, TRUE).err
           = "InsufficientBalance"

\* The time the owner's unpause_escrow waits for: the present, or the end
\* of the cooldown of the record's pause.
CooldownEnd(e, t) ==
    IF is_paused(e) /\ ~can_unpause(e, t)
    THEN e.last_paused_at + UNPAUSE_COOLDOWN
    ELSE t

\* A call that is not made.
Skipped(e) == Done(e, 0, <<>>, FALSE)

\* The recovery by the owner alone, from the record e holding bal at time
\* t: unpause_escrow once the cooldown has elapsed if e is paused, the
\* revocation of each authority that is set, then withdraw_token of bal,
\* the token program carrying out the transfer.  The outcomes of the four
\* calls, in order.
Recovery(e, bal, t) ==
    LET r1 == IF is_paused(e)
              THEN Called(UnpauseEscrow(TRUE, e, Owner), e,
                          unpause_escrow(e, CooldownEnd(e, t)))
              ELSE Skipped(e)
        e1 == r1.escrow
        r2 == IF e1.platform_authority # DefaultPubkey
              THEN Called(RevokePlatformAuthority(TRUE, e1, Owner), e1,
                          revoke_platform_authority(e1))
              ELSE Skipped(e1)
        e2 == r2.escrow
        r3 == IF e2.trading_authority # DefaultPubkey
              THEN Called(RevokeTradingAuthority(TRUE, e2, Owner), e2,
                          revoke_trading_authority(e2))
              ELSE Skipped(e2)
        e3 == r3.escrow
        r4 == Called(WithdrawToken(TRUE, e3, Owner, Mint), e3,
                     withdraw_token(e3, bal, bal, TRUE))
    IN  <<r1, r2, r3, r4>>

(***************************************************************************)
(* C31.  Owner recoverability.  In every reachable state of a live record  *)
(* that holds tokens, whatever the delegates have done, the recovery by    *)
(* the owner alone succeeds once the clock has reached the end of the      *)
(* cooldown: unpause_escrow if the record is paused, the revocation of     *)
(* each authority that is set and withdraw_token of the whole balance all  *)
(* return Ok, the first three move no token, and the last one moves the    *)
(* whole balance out and adds it to total_withdrawn.  Every step of the    *)
(* recovery that lowers the balance without being a delegate's withdrawal  *)
(* empties it and adds what it held to total_withdrawn.  And once the      *)
(* owner has set out, the clock advancing and the owner going on with the  *)
(* calls, while the delegates go on withdrawing what they can, the record  *)
(* comes to hold nothing, unpaused and with no authority set.              *)
(***************************************************************************)
C31_OwnerAloneRecovers ==
    (live /\ vault > 0) =>
        LET rs == Recovery(escrow, vault, now)
        IN  /\ \A i \in 1..4 : rs[i].err = "Ok"
            /\ \A i \in 1..3 : rs[i].moved = 0 /\ ~rs[i].closed
            /\ rs[4].moved = 0 - vault
            /\ ~rs[4].closed
            /\ rs[4].escrow.total_withdrawn = escrow.total_withdrawn + vault
            /\ rs[4].escrow.user = escrow.user

C31_StepToOwner ==
    (/\ recovering
     /\ vault' < vault
     /\ escrow'.total_fees_paid = escrow.total_fees_paid
     /\ escrow'.total_traded = escrow.total_traded) =>
        /\ vault' = 0
        /\ escrow'.total_withdrawn = escrow.total_withdrawn + vault

C31_Held == recovering /\ live /\ vault > 0

C31_Recovered ==
    /\ recovering
    /\ live
    /\ vault = 0
    /\ ~is_paused(escrow)
    /\ escrow.platform_authority = DefaultPubkey
    /\ escrow.trading_authority = DefaultPubkey

Frozen == live /\ is_paused(escrow) /\ has_active_authority(escrow)

\* The record is not paused and an authority is active.
Thawed == live /\ ~is_paused(escrow) /\ has_active_authority(escrow)

\* What the record says of its two authorities.
Authorities(e) ==
    <<e.platform_authority, is_platform_active(e), e.platform_activated_at,
      e.trading_authority, is_trading_active(e), e.trading_activated_at>>

\* The call returned Ok without moving a token, closing the record or
\* changing either authority.
OkKeepsFundsAndAuthorities(r) ==
    /\ r.err = "Ok"
    /\ r.moved = 0
    /\ ~r.closed
    /\ Authorities(r.escrow) = Authorities(escrow)

(***************************************************************************)
(* C32.  Frozen while paused with a delegate.  In every reachable state of *)
(* a live record that is paused while an authority is active:              *)
(* initialize_escrow, deposit_token, both delegations, both revocations,   *)
(* withdraw_subscription_fee, withdraw_for_trade, withdraw_token,          *)
(* emergency_withdraw and close_escrow fail, whoever signs them, whatever  *)
(* their arguments and whatever the token program would answer, and leave  *)
(* the record and the vault as they were; pause_escrow and                 *)
(* set_max_lifetime (of a lifetime >= 0) called by the owner return Ok,    *)
(* and unpause_escrow called by the owner returns Ok exactly when          *)
(* now - last_paused_at >= UNPAUSE_COOLDOWN; the three move no token and   *)
(* change neither authority.  Every step from such a state leaves the      *)
(* vault and both authorities as they were and the record either paused    *)
(* or, the cooldown having elapsed, unpaused with its authorities active;  *)
(* and no step from an unpaused record with an active authority leads to a *)
(* paused record without one.  So a state in which emergency_withdraw can  *)
(* succeed is reached from a frozen one only through an unpaused state     *)
(* with the authorities active, then one with none active, then a pause.   *)
(***************************************************************************)
C32_AllButThreeFail ==
    Frozen =>
        /\ \A user \in Signers :
            /\ \A token_mint \in Mints, amount \in Amounts,
                  cpi_ok \in BOOLEAN :
                /\ FailsUnchanged(deposit_token_ix(user, token_mint, amount,
                                                   cpi_ok))
                /\ FailsUnchanged(withdraw_subscription_fee_ix(
                                      user, token_mint, amount, cpi_ok))
                /\ FailsUnchanged(withdraw_for_trade_ix(
                                      user, token_mint, amount, cpi_ok))
                /\ FailsUnchanged(withdraw_token_ix(user, token_mint, amount,
                                                    cpi_ok))
                /\ FailsUnchanged(emergency_withdraw_ix(
                                      user, token_mint, amount, cpi_ok))
            /\ \A target \in Targets :
                /\ FailsUnchanged(delegate_platform_authority_ix(user,
                                                                 target))
                /\ FailsUnchanged(delegate_trading_authority_ix(user,
                                                                target))
            /\ FailsUnchanged(revoke_platform_authority_ix(user))
            /\ FailsUnchanged(revoke_trading_authority_ix(user))
            /\ \A lamports \in LamportsInputs, cpi_ok \in BOOLEAN :
                FailsUnchanged(close_escrow_ix(user, lamports, cpi_ok))
            /\ \A decimals \in DecimalsInputs,
                  max_balance \in MaxBalanceInputs :
                FailsUnchanged(initialize_escrow_ix(user, decimals,
                                                    max_balance))
        /\ OkKeepsFundsAndAuthorities(pause_escrow_ix(escrow.user))
        /\ is_paused(pause_escrow_ix(escrow.user).escrow)
        /\ \A max_lifetime_seconds \in LifetimeInputs :
            LET r == set_max_lifetime_ix(escrow.user, max_lifetime_seconds)
            IN  IF max_lifetime_seconds >= 0
                THEN OkKeepsFundsAndAuthorities(r) /\ is_paused(r.escrow)
                ELSE FailsUnchanged(r)
        /\ LET r == unpause_escrow_ix(escrow.user)
           IN  IF now - escrow.last_paused_at >= UNPAUSE_COOLDOWN
               THEN OkKeepsFundsAndAuthorities(r) /\ ~is_paused(r.escrow)
               ELSE FailsUnchanged(r)

C32_StepStaysOrThaws ==
    /\ Frozen =>
        /\ vault' = vault
        /\ Authorities(escrow') = Authorities(escrow)
        /\ \/ Frozen'
           \/ Thawed' /\ now - escrow.last_paused_at >= UNPAUSE_COOLDOWN
    /\ Thawed => ~(live' /\ is_paused(escrow') /\ ~has_active_authority(escrow'))

C32_FrozenWhilePaused ==
    /\ [](C32_AllButThreeFail)
    /\ [][C32_StepStaysOrThaws]_vars

\* A paused record with a mature platform authority and tokens in the
\* vault, the cooldown elapsed: the delegate's fee withdrawal and the
\* owner's emergency withdrawal are refused, the owner's unpause is not.
C32_Witness ==
    /\ Frozen
    /\ vault > 0
    /\ is_platform_authority_mature(escrow, now)
    /\ withdraw_subscription_fee_ix(escrow.platform_authority, Mint, 1,
                                    TRUE).err = "EscrowPaused"
    /\ emergency_withdraw_ix(escrow.user, Mint, 1, TRUE).err
           = "EscrowStillActive"
    /\ unpause_escrow_ix(escrow.user).err = "Ok"

\* The fields of the record that initialize_escrow alone writes.
Identity(e) == <<e.user, e.token_mint, e.bump, e.created_at, e.max_balance>>

(***************************************************************************)
(* C33.  Immutable identity and limits.  No step between two states of a   *)
(* live record changes user, token_mint, bump, created_at or max_balance,  *)
(* and a step that changes max_lifetime leaves the record as               *)
(* set_max_lifetime of a lifetime >= 0 leaves it.  In every reachable      *)
(* state of a live record 0 < max_balance <= MAX_ALLOWED_BALANCE and       *)
(* max_lifetime >= 0, and the identity is the one initialize_escrow wrote: *)
(* the owner, the mint, the bump and a created_at not after the clock.     *)
(* initialize_escrow called with a ceiling of 0 stores                     *)
(* DEFAULT_MAX_BALANCE, which is below MAX_ALLOWED_BALANCE; with a ceiling *)
(* in 1..MAX_ALLOWED_BALANCE it stores that ceiling; with a larger one it  *)
(* fails; and it stores max_lifetime = 0.                                  *)
(***************************************************************************)
C33_Limits ==
    /\ 0 < DEFAULT_MAX_BALANCE
    /\ DEFAULT_MAX_BALANCE < MAX_ALLOWED_BALANCE
    /\ live =>
        /\ 0 < escrow.max_balance
        /\ escrow.max_balance <= MAX_ALLOWED_BALANCE
        /\ escrow.max_lifetime >= 0
        /\ escrow.user = Owner
        /\ escrow.token_mint = Mint
        /\ escrow.bump = Bump
        /\ escrow.created_at \in StartTime..now
    /\ ~live =>
        \A user \in Signers, decimals \in DecimalsInputs,
           max_balance \in Amounts :
            LET r == initialize_escrow_ix(user, decimals, max_balance)
            IN  /\ max_balance > MAX_ALLOWED_BALANCE => r.err # "Ok"
                /\ r.err = "Ok" =>
                    /\ Identity(r.escrow) =
                           <<user, Mint, Bump, now,
                             IF max_balance = 0
                             THEN DEFAULT_MAX_BALANCE
                             ELSE max_balance>>
                    /\ r.escrow.max_lifetime = 0

C33_StepKeepsIdentity ==
    (live /\ live') =>
        /\ Identity(escrow') = Identity(escrow)
        /\ escrow'.max_lifetime # escrow.max_lifetime =>
            \E max_lifetime_seconds \in LifetimeInputs :
                /\ max_lifetime_seconds >= 0
                /\ escrow' = set_max_lifetime(escrow,
                                              max_lifetime_seconds).escrow

C33_ImmutableIdentity ==
    /\ [](C33_Limits)
    /\ [][C33_StepKeepsIdentity]_vars

\* A record created at StartTime with a requested ceiling of 0, later
\* given a lifetime by set_max_lifetime, after deposits and a withdrawal:
\* it holds the default ceiling and its creation time still.
C33_Witness ==
    /\ live
    /\ now > StartTime
    /\ escrow.created_at = StartTime
    /\ escrow.max_balance = DEFAULT_MAX_BALANCE
    /\ escrow.max_lifetime = MIN_AUTHORITY_AGE - 1
    /\ escrow.total_deposited > 0
    /\ escrow.total_withdrawn > 0

=============================================================================
